---- MODULE Spec2Model ----
(***************************************************************************)
(* A model of the cricket bot of src/index.js: the match classifier, the    *)
(* filter evaluator and the tick scheduler with its per-guild branches.     *)
(*                                                                          *)
(* Text is modelled as a sequence of one-character strings, so that the     *)
(* substring tests of the classifier are computed and not assumed.          *)
(***************************************************************************)
EXTENDS Integers, Sequences, FiniteSets, TLC

(* ------------------------------ text ---------------------------------- *)

UpperChars == <<"A","B","C","D","E","F","G","H","I","J","K","L","M","N","O","P","Q","R","S","T","U","V","W","X","Y","Z">>
LowerChars == <<"a","b","c","d","e","f","g","h","i","j","k","l","m","n","o","p","q","r","s","t","u","v","w","x","y","z">>
DigitChars == <<"0","1","2","3","4","5","6","7","8","9">>

Range(f) == {f[i] : i \in DOMAIN f}

\* String.prototype.toLowerCase, one character
LowerChar(c) ==
  IF \E i \in 1..26 : UpperChars[i] = c
  THEN LowerChars[CHOOSE i \in 1..26 : UpperChars[i] = c]
  ELSE c

toLowerCase(s) == [i \in 1..Len(s) |-> LowerChar(s[i])]

IsSpace(c) == c = " "

\* \w of a regular expression
IsWordChar(c) == c \in Range(UpperChars) \cup Range(LowerChars) \cup Range(DigitChars) \cup {"_"}

RECURSIVE trimLeft(_)
trimLeft(s) == IF s # <<>> /\ IsSpace(Head(s)) THEN trimLeft(Tail(s)) ELSE s

RECURSIVE trimRight(_)
trimRight(s) ==
  IF s # <<>> /\ IsSpace(s[Len(s)]) THEN trimRight(SubSeq(s, 1, Len(s) - 1)) ELSE s

trim(s) == trimRight(trimLeft(s))

\* replace(/\s+/g, ' ')
RECURSIVE collapseSpaces(_)
collapseSpaces(s) ==
  IF s = <<>> THEN <<>>
  ELSE IF IsSpace(Head(s)) THEN <<" ">> \o collapseSpaces(trimLeft(s))
  ELSE <<Head(s)>> \o collapseSpaces(Tail(s))

\* norm = (s||'').toString().trim().toLowerCase().replace(/\s+/g,' ')
norm(s) == collapseSpaces(toLowerCase(trim(s)))

\* pat occurs in s at position i
MatchAt(s, pat, i) ==
  /\ i + Len(pat) - 1 <= Len(s)
  /\ \A k \in 1..Len(pat) : s[i + k - 1] = pat[k]

\* String.prototype.includes
includes(s, pat) == \E i \in 1..(Len(s) - Len(pat) + 1) : MatchAt(s, pat, i)

\* pat occurs in s and is followed by a word boundary (pat ends in a word character)
includesThenBoundary(s, pat) ==
  \E i \in 1..(Len(s) - Len(pat) + 1) :
    /\ MatchAt(s, pat, i)
    /\ (i + Len(pat) > Len(s) \/ ~IsWordChar(s[i + Len(pat)]))

\* Array.prototype.some(k => s.includes(k))
someIncluded(list, s) == \E k \in 1..Len(list) : includes(s, list[k])

\* Array.prototype.join(' ') of the non-empty strings of a list (filter(Boolean))
RECURSIVE joinNonEmpty(_)
joinNonEmpty(list) ==
  IF list = <<>> THEN <<>>
  ELSE IF Head(list) = <<>> THEN joinNonEmpty(Tail(list))
  ELSE LET rest == joinNonEmpty(Tail(list))
       IN  IF rest = <<>> THEN Head(list) ELSE Head(list) \o <<" ">> \o rest

(* --------------------- heuristics (category & gender) ------------------ *)

FRANCHISE_MAP == <<
  <<"i","n","d","i","a","n"," ","p","r","e","m","i","e","r"," ","l","e","a","g","u","e">>, <<"i","p","l">>, <<"b","i","g"," ","b","a","s","h">>, <<"b","b","l">>, <<"p","a","k","i","s","t","a","n"," ","s","u","p","e","r"," ","l","e","a","g","u","e">>,
  <<"p","s","l">>, <<"c","a","r","i","b","b","e","a","n"," ","p","r","e","m","i","e","r"," ","l","e","a","g","u","e">>, <<"c","p","l">>, <<"t","h","e"," ","h","u","n","d","r","e","d">>,
  <<"b","a","n","g","l","a","d","e","s","h"," ","p","r","e","m","i","e","r"," ","l","e","a","g","u","e">>, <<"b","p","l">>, <<"l","a","n","k","a"," ","p","r","e","m","i","e","r"," ","l","e","a","g","u","e">>, <<"l","p","l">>, <<"s","a","2","0">>,
  <<"m","a","j","o","r"," ","l","e","a","g","u","e"," ","c","r","i","c","k","e","t">>, <<"m","l","c">>, <<"g","l","o","b","a","l"," ","t","2","0">>, <<"g","t","2","0">>, <<"s","u","p","e","r"," ","s","m","a","s","h">>,
  <<"t","1","0"," ","l","e","a","g","u","e">>, <<"a","b","u"," ","d","h","a","b","i"," ","t","1","0">> >>

FIRST_CLASS_MAP == <<
  <<"r","a","n","j","i"," ","t","r","o","p","h","y">>, <<"s","h","e","f","f","i","e","l","d"," ","s","h","i","e","l","d">>, <<"c","o","u","n","t","y"," ","c","h","a","m","p","i","o","n","s","h","i","p">>, <<"p","l","u","n","k","e","t"," ","s","h","i","e","l","d">>,
  <<"l","o","g","a","n"," ","c","u","p">>, <<"q","u","a","i","d","-","e","-","a","z","a","m"," ","t","r","o","p","h","y">>, <<"f","o","u","r","-","d","a","y">>, <<"4","-","d","a","y">> >>

DOMESTIC_LISTA_T20_MAP == <<
  <<"v","i","j","a","y"," ","h","a","z","a","r","e"," ","t","r","o","p","h","y">>, <<"s","y","e","d"," ","m","u","s","h","t","a","q"," ","a","l","i">>, <<"s","m","a","t">>, <<"r","o","y","a","l"," ","l","o","n","d","o","n"," ","o","n","e","-","d","a","y">>,
  <<"d","e","o","d","h","a","r"," ","t","r","o","p","h","y">>, <<"d","u","l","e","e","p"," ","t","r","o","p","h","y">>, <<"m","o","m","e","n","t","u","m"," ","o","n","e"," ","d","a","y"," ","c","u","p">>, <<"m","a","r","s","h"," ","o","n","e","-","d","a","y"," ","c","u","p">>,
  <<"n","a","t","i","o","n","a","l"," ","t","2","0"," ","c","u","p">>, <<"s","u","p","e","r","5","0">>, <<"o","n","e","-","d","a","y"," ","c","u","p">> >>

INDIAN_DOMESTIC_SERIES == <<
  <<"r","a","n","j","i"," ","t","r","o","p","h","y">>, <<"v","i","j","a","y"," ","h","a","z","a","r","e">>, <<"s","y","e","d"," ","m","u","s","h","t","a","q"," ","a","l","i">>, <<"s","m","a","t">>, <<"d","u","l","e","e","p"," ","t","r","o","p","h","y">>,
  <<"d","e","o","d","h","a","r"," ","t","r","o","p","h","y">>, <<"i","r","a","n","i"," ","c","u","p">>, <<"e","l","i","t","e"," ","g","r","o","u","p">>, <<"p","l","a","t","e">> >>

STRONG_INTL == <<
  <<"t","2","0","i">>, <<"o","d","i">>, <<"t","e","s","t">>, <<"i","c","c">>, <<"w","o","r","l","d"," ","c","u","p">>, <<"a","s","i","a"," ","c","u","p">>,
  <<"c","h","a","m","p","i","o","n","s"," ","t","r","o","p","h","y">>, <<"t","r","i","-","s","e","r","i","e","s">>, <<"t","o","u","r"," ","o","f">>, <<"i","n","t","e","r","n","a","t","i","o","n","a","l">> >>

states == <<
  <<"m","u","m","b","a","i">>, <<"d","e","l","h","i">>, <<"k","a","r","n","a","t","a","k","a">>, <<"t","a","m","i","l"," ","n","a","d","u">>, <<"b","e","n","g","a","l">>, <<"s","a","u","r","a","s","h","t","r","a">>,
  <<"v","i","d","a","r","b","h","a">>, <<"b","a","r","o","d","a">>, <<"g","u","j","a","r","a","t">>, <<"m","a","h","a","r","a","s","h","t","r","a">>, <<"p","u","n","j","a","b">>, <<"s","e","r","v","i","c","e","s">>,
  <<"r","a","i","l","w","a","y","s">>, <<"u","t","t","a","r","a","k","h","a","n","d">>, <<"h","y","d","e","r","a","b","a","d">>, <<"a","n","d","h","r","a">>, <<"k","e","r","a","l","a">>, <<"j","h","a","r","k","h","a","n","d">>,
  <<"j","a","m","m","u">>, <<"k","a","s","h","m","i","r">>, <<"h","a","r","y","a","n","a">>, <<"u","t","t","a","r"," ","p","r","a","d","e","s","h">>, <<"m","a","d","h","y","a"," ","p","r","a","d","e","s","h">>, <<"a","s","s","a","m">>,
  <<"g","o","a">>, <<"t","r","i","p","u","r","a">>, <<"m","a","n","i","p","u","r">>, <<"m","e","g","h","a","l","a","y","a">>, <<"m","i","z","o","r","a","m">>, <<"n","a","g","a","l","a","n","d">>,
  <<"s","i","k","k","i","m">>, <<"c","h","h","a","t","t","i","s","g","a","r","h">>, <<"h","i","m","a","c","h","a","l">>, <<"r","a","j","a","s","t","h","a","n">>, <<"p","o","n","d","i","c","h","e","r","r","y">>,
  <<"c","h","a","n","d","i","g","a","r","h">>, <<"o","d","i","s","h","a">>, <<"o","r","i","s","s","a">> >>

\* match.series || match.name
seriesOrName(match) == IF match.series # <<>> THEN match.series ELSE match.name

\* teamInfo.map(t=>[norm(t.name),norm(t.shortname)]).flat().filter(Boolean).join(' ')
RECURSIVE teamNameList(_)
teamNameList(teamInfo) ==
  IF teamInfo = <<>> THEN <<>>
  ELSE <<norm(Head(teamInfo).name), norm(Head(teamInfo).shortname)>>
         \o teamNameList(Tail(teamInfo))

matchTeamNames(match) == joinNonEmpty(teamNameList(match.teamInfo))

\* a match is regional only by the name of its series
isIndianDomesticBySeries(match) ==
  someIncluded(INDIAN_DOMESTIC_SERIES, norm(seriesOrName(match)))

isIndianDomestic(match) ==
  LET series == norm(seriesOrName(match))
  IN  \/ someIncluded(INDIAN_DOMESTIC_SERIES, series)
      \/ someIncluded(states, matchTeamNames(match))

\* the steps in another order: the franchise leagues are looked for last
guessCategoryFranchiseLast(match) ==
  LET series == norm(seriesOrName(match))
      mtype  == norm(match.matchType)
  IN  IF isIndianDomestic(match)
      THEN IF \/ includes(series, <<"r","a","n","j","i">>) \/ includes(series, <<"e","l","i","t","e"," ","g","r","o","u","p">>)
              \/ includes(series, <<"p","l","a","t","e">>) \/ includes(mtype, <<"f","i","r","s","t"," ","c","l","a","s","s">>)
              \/ includes(mtype, <<"f","o","u","r","-","d","a","y">>) \/ includes(mtype, <<"4","-","d","a","y">>)
           THEN "first-class" ELSE "domestic"
      ELSE IF \/ includes(series, <<"f","i","r","s","t"," ","c","l","a","s","s">>) \/ someIncluded(FIRST_CLASS_MAP, series)
              \/ includes(mtype, <<"f","i","r","s","t"," ","c","l","a","s","s">>) \/ includes(mtype, <<"f","o","u","r","-","d","a","y">>)
              \/ includes(mtype, <<"4","-","d","a","y">>)
           THEN "first-class"
      ELSE IF \/ includes(series, <<"l","i","s","t"," ","a">>) \/ someIncluded(DOMESTIC_LISTA_T20_MAP, series)
              \/ includes(mtype, <<"l","i","s","t"," ","a">>)
              \/ (includes(mtype, <<"t","2","0">>) /\ ~includes(mtype, <<"t","2","0","i">>))
           THEN "domestic"
      ELSE IF \/ someIncluded(STRONG_INTL, series)
              \/ includes(mtype, <<"t","2","0","i">>) \/ includes(mtype, <<"o","d","i">>)
              \/ includes(mtype, <<"t","e","s","t">>)
           THEN "international"
      ELSE IF someIncluded(FRANCHISE_MAP, series) THEN "franchise"
      ELSE "domestic"

guessCategory(match) ==
  LET series == norm(seriesOrName(match))
      mtype  == norm(match.matchType)
  IN  IF isIndianDomestic(match)
      THEN IF \/ includes(series, <<"r","a","n","j","i">>) \/ includes(series, <<"e","l","i","t","e"," ","g","r","o","u","p">>)
              \/ includes(series, <<"p","l","a","t","e">>) \/ includes(mtype, <<"f","i","r","s","t"," ","c","l","a","s","s">>)
              \/ includes(mtype, <<"f","o","u","r","-","d","a","y">>) \/ includes(mtype, <<"4","-","d","a","y">>)
           THEN "first-class" ELSE "domestic"
      ELSE IF someIncluded(FRANCHISE_MAP, series) THEN "franchise"
      ELSE IF \/ includes(series, <<"f","i","r","s","t"," ","c","l","a","s","s">>) \/ someIncluded(FIRST_CLASS_MAP, series)
              \/ includes(mtype, <<"f","i","r","s","t"," ","c","l","a","s","s">>) \/ includes(mtype, <<"f","o","u","r","-","d","a","y">>)
              \/ includes(mtype, <<"4","-","d","a","y">>)
           THEN "first-class"
      ELSE IF \/ includes(series, <<"l","i","s","t"," ","a">>) \/ someIncluded(DOMESTIC_LISTA_T20_MAP, series)
              \/ includes(mtype, <<"l","i","s","t"," ","a">>)
              \/ (includes(mtype, <<"t","2","0">>) /\ ~includes(mtype, <<"t","2","0","i">>))
           THEN "domestic"
      ELSE IF \/ someIncluded(STRONG_INTL, series)
              \/ includes(mtype, <<"t","2","0","i">>) \/ includes(mtype, <<"o","d","i">>)
              \/ includes(mtype, <<"t","e","s","t">>)
           THEN "international"
      ELSE "domestic"

guessGender(match) ==
  LET series  == norm(seriesOrName(match))
      teamStr == matchTeamNames(match)
  IN  IF includes(series, <<"w","o","m","e","n">>) \/ includes(series, <<"w","o","m","e","n","s">>) THEN "women"
      ELSE IF includes(teamStr, <<" ","w","o","m","e","n">>) THEN "women"
      ELSE IF \E k \in 1..Len(match.teamInfo) :
                LET sn == norm(match.teamInfo[k].shortname)
                IN  includesThenBoundary(sn, <<"-","w">>) \/ includesThenBoundary(sn, <<" ","w","o","m","e","n">>)
           THEN "women"
      ELSE "men"

\* FINISHED_RE = /(stump|stumps|abandon|no result|completed|won by|finished)/i
FINISHED_WORDS == <<
  <<"s","t","u","m","p">>, <<"s","t","u","m","p","s">>, <<"a","b","a","n","d","o","n">>, <<"n","o"," ","r","e","s","u","l","t">>, <<"c","o","m","p","l","e","t","e","d">>, <<"w","o","n"," ","b","y">>,
  <<"f","i","n","i","s","h","e","d">> >>

FINISHED_RE(text) == someIncluded(FINISHED_WORDS, toLowerCase(text))

\* /(live|day|inning|session|break|opt to bat|opt to bowl)/
LIVE_WORDS == <<
  <<"l","i","v","e">>, <<"d","a","y">>, <<"i","n","n","i","n","g">>, <<"s","e","s","s","i","o","n">>, <<"b","r","e","a","k">>, <<"o","p","t"," ","t","o"," ","b","a","t">>, <<"o","p","t"," ","t","o"," ","b","o","w","l">> >>

relevantLive(m) ==
  LET status == norm(m.status)
  IN  IF someIncluded(LIVE_WORDS, status) THEN TRUE
      ELSE IF m.matchStarted /\ ~FINISHED_RE(status) THEN TRUE
      ELSE FALSE

AllGenders == {"men", "women"}
AllCategories == {"international", "first-class", "domestic", "franchise"}

\* a field that is absent (undefined) holds Absent, AbsentSet or AbsentSeq by
\* the kind of value it holds otherwise
Absent == "absent"
AbsentSet == {"absent"}
AbsentSeq == <<"absent">>

(* ------------------------ process configuration ----------------------- *)

POLL_SECONDS == 600
IDLE_BACKOFF_SECONDS == 1800
GRACE_SECONDS == 5
DAY_SECONDS == 86400
BATCH_SIZE == 8
TIMER_SECONDS == 60
DAILY_SUMMARY_HHMM == <<"2","1","0","0">>

(* ------------------------------ bounds -------------------------------- *)

\* timer periods that elapse during a run
MaxTicks == 2
\* ticks that can be suspended at the same time
MaxInFlight == 2
\* admin commands, upstream changes and failed awaits (fetch, post) during a run
MaxEvents == 1

\* how far the clock moves between two firings of the timer: one period, a
\* stretch just under the poll interval, and two days in which the process
\* did not tick
Steps == {TIMER_SECONDS, POLL_SECONDS - GRACE_SECONDS, 2 * DAY_SECONDS}

\* the wall clock when the timer fires first: 20:58:00 UTC of day 2
StartClock == 2 * DAY_SECONDS + 20 * 3600 + 58 * 60

\* a due time the data file holds from an earlier run of the process, which
\* was down since: 21:00:00 UTC of day 0
MissedDue == 21 * 3600

(* ----------------------------- upstream ------------------------------- *)

MatchIds == <<"m1", "m2">>

\* the fields of a match record that do not change while it is played
StaticInfo == [
  m1 |-> [id |-> "m1", name |-> <<"I","n","d","i","a"," ","v","s"," ","A","u","s","t","r","a","l","i","a",","," ","1","s","t"," ","O","D","I">>,
          series |-> <<"A","u","s","t","r","a","l","i","a"," ","t","o","u","r"," ","o","f"," ","I","n","d","i","a",","," ","2","0","2","5">>, matchType |-> <<"o","d","i">>,
          teamInfo |-> << [name |-> <<"I","n","d","i","a">>, shortname |-> <<"I","N","D">>],
                          [name |-> <<"A","u","s","t","r","a","l","i","a">>, shortname |-> <<"A","U","S">>] >>,
          day |-> 3],
  m2 |-> [id |-> "m2", name |-> <<"M","u","m","b","a","i"," ","v","s"," ","D","e","l","h","i">>,
          series |-> <<"R","a","n","j","i"," ","T","r","o","p","h","y"," ","E","l","i","t","e"," ","2","0","2","5">>, matchType |-> <<"t","e","s","t">>,
          teamInfo |-> << [name |-> <<"M","u","m","b","a","i">>, shortname |-> <<"M","U","M">>],
                          [name |-> <<"D","e","l","h","i">>, shortname |-> <<"D","E","L">>] >>,
          day |-> 2] ]

\* what upstream reports of a match as it goes on
StatusTable == [
  notstarted |-> [status |-> <<"M","a","t","c","h"," ","n","o","t"," ","s","t","a","r","t","e","d">>, matchStarted |-> FALSE],
  live       |-> [status |-> <<"I","n","n","i","n","g","s"," ","B","r","e","a","k">>, matchStarted |-> TRUE],
  won        |-> [status |-> <<"I","n","d","i","a"," ","w","o","n"," ","b","y"," ","5"," ","w","k","t","s">>, matchStarted |-> TRUE],
  tied       |-> [status |-> <<"M","a","t","c","h"," ","T","i","e","d">>, matchStarted |-> TRUE] ]

StatusNames == DOMAIN StatusTable

\* the next reports upstream can give after a report
StatusAfter(s) ==
  CASE s = "notstarted" -> {"live"}
    [] s = "live" -> {"won", "tied"}
    [] OTHER -> {}

\* the record upstream returns for entry e = [id, st, src]
MatchRecord(e) ==
  [id |-> e.id, name |-> StaticInfo[e.id].name, series |-> StaticInfo[e.id].series,
   matchType |-> StaticInfo[e.id].matchType, teamInfo |-> StaticInfo[e.id].teamInfo,
   day |-> StaticInfo[e.id].day, status |-> StatusTable[e.st].status,
   matchStarted |-> StatusTable[e.st].matchStarted]

matchIdOf(m) == m.id

\* the records upstream can return
UpstreamRecords ==
  {MatchRecord([id |-> i, st |-> s]) : i \in Range(MatchIds), s \in StatusNames}

\* what the classifier makes of each of these records, computed once
Classified ==
  [m \in UpstreamRecords |->
     [category |-> guessCategory(m), gender |-> guessGender(m),
      indianDomestic |-> isIndianDomestic(m), teamNames |-> matchTeamNames(m),
      finished |-> FINISHED_RE(m.status), live |-> relevantLive(m)]]

genderAllowed(match, genders) ==
  Classified[match].gender \in (IF genders = AbsentSet THEN AllGenders ELSE genders)

categoryAllowed(match, allowed) ==
  Classified[match].category \in (IF allowed = AbsentSet THEN {} ELSE allowed)

teamAllowed(match, teamFilters) ==
  IF teamFilters = AbsentSeq \/ teamFilters = <<>> THEN TRUE
  ELSE LET names == Classified[match].teamNames
       IN  \E k \in 1..Len(teamFilters) : includes(names, norm(teamFilters[k]))

isFinishedOrStumps(m) == Classified[m].finished

(* ------------------------------- state -------------------------------- *)

TenantOrder == <<"g1", "g2">>
Tenants == Range(TenantOrder)

VARIABLES
  clock,              \* Date.now()/1000
  armed,              \* the interval timer has a firing pending
  nticks,             \* ticks started so far
  nevents,            \* admin commands, upstream changes and failures so far
  data,               \* the in-memory guild configuration, by guild id
  disk,               \* guild_cricket_config.json as last written
  lastPostedByMatch,  \* match id -> epoch of the last score update, 0 when none
  feed,               \* match id -> what upstream reports now
  ticks,              \* the ticks in flight, by slot
  posts,              \* what was sent to the guilds' channels
  notes,              \* what the ticks decided, for the properties below
  ended,              \* how the tick that ended last went
  probe,              \* a match record handed to the classifier, and what it said
  reply,              \* how the last lookup command ended for the user
  boot                \* how the process started

vars == <<clock, armed, nticks, nevents, data, disk, lastPostedByMatch, feed, ticks,
          posts, notes, ended, probe, reply, boot>>

TickSlots == 1..MaxInFlight

DefaultGuild(sel, mode) ==
  [channel_id |-> "channel", mode |-> mode, filters |-> {"international", "domestic"},
   selected_match_ids |-> sel, daily_time |-> DAILY_SUMMARY_HHMM, ping_enabled |-> FALSE,
   role_ids |-> <<>>, team_filters |-> <<>>, gender_filters |-> {"men", "women"},
   is_paused |-> FALSE, next_due |-> 0, fallback_summary |-> 0, next_summary |-> 0]

IdleTick ==
  [pc |-> "idle", now |-> 0, serial |-> 0, idx |-> 0, mode |-> "", filters |-> {},
   sel |-> <<>>, teams |-> <<>>, genders |-> {}, dailyHHMM |-> <<>>, br |-> "",
   nextRun |-> 0,
   cur |-> <<>>, matches |-> <<>>, mi |-> 0, anyLive |-> FALSE,
   threw |-> {}, visited |-> {}, wrote |-> FALSE, quiet |-> FALSE, after |-> "none",
   posted |-> {}, fetchFailed |-> FALSE]

\* no record was handed to the classifier
NoProbe == [status |-> <<>>, matchStarted |-> FALSE, done |-> FALSE, finished |-> FALSE,
            live |-> FALSE]

\* no lookup command has run
NoReply == [g |-> "", cmd |-> "", kind |-> "", mids |-> <<>>, upstreamFailed |-> FALSE]

\* the process is up: both once-listeners of the ready events are gone, no
\* call of onBoot is suspended, one interval timer is registered and none of
\* its firings is pending; serial and events count the ticks and the events
\* before the process started, and loaded is the data file as it was then
Booted(d, serial) ==
  [listeners |-> {}, booting |-> 0, timers |-> 1, due |-> {}, serial |-> serial,
   events |-> 0, loaded |-> d]

NoEnded == [serial |-> 0, threw |-> {}, visited |-> {}, wrote |-> FALSE, quiet |-> FALSE,
            after |-> "none", clean |-> FALSE]

\* the guild configurations the data file can hold when the process starts
InitGuilds ==
  { DefaultGuild(<<>>, "daily"), DefaultGuild(<<>>, "custom"),
    DefaultGuild(<<"m1">>, "custom"),
    [DefaultGuild(<<>>, "daily") EXCEPT !.next_summary = MissedDue] }

Init ==
  /\ clock = StartClock
  /\ armed = TRUE
  /\ nticks = 0
  /\ nevents = 0
  /\ data \in [Tenants -> InitGuilds]
  /\ disk = data
  /\ lastPostedByMatch = [m \in Range(MatchIds) |-> 0]
  /\ feed \in [Range(MatchIds) -> {"live"}]
  /\ ticks = [t \in TickSlots |-> IdleTick]
  /\ posts = {}
  /\ notes = {}
  /\ ended = NoEnded
  /\ probe = NoProbe
  /\ reply = NoReply
  /\ boot = Booted(data, 0)

(* ------------------------------ helpers ------------------------------- *)

Has(seq, x) == \E i \in 1..Len(seq) : seq[i] = x

RECURSIVE Without(_, _)
Without(seq, x) ==
  IF seq = <<>> THEN <<>>
  ELSE IF Head(seq) = x THEN Without(Tail(seq), x)
  ELSE <<Head(seq)>> \o Without(Tail(seq), x)

\* new Set(seq).add(x), as an array
With(seq, x) == IF Has(seq, x) THEN seq ELSE Append(seq, x)

DigitVal(c) == (CHOOSE i \in 1..10 : DigitChars[i] = c) - 1

\* parseInt(s, 10) of a string of digits
RECURSIVE parseInt(_)
parseInt(s) ==
  IF s = <<>> THEN 0 ELSE 10 * parseInt(SubSeq(s, 1, Len(s) - 1)) + DigitVal(s[Len(s)])

\* the UTC day a time falls in: new Date(..).toISOString().slice(0,10)
isoDay(time) == time \div DAY_SECONDS

todayISO == isoDay(clock)
tomorrowISO == isoDay(clock) + 1

\* the time hhmm of the day the clock is in, also when it has passed
hhmmToDateToday(hhmm) ==
  isoDay(clock) * DAY_SECONDS + parseInt(SubSeq(hhmm, 1, 2)) * 3600
    + parseInt(SubSeq(hhmm, 3, Len(hhmm))) * 60

\* hhmmToNextDate(hhmm).getTime()/1000, floored; the process runs in UTC
hhmmToNextDate(hhmm) ==
  LET hh == parseInt(SubSeq(hhmm, 1, 2))
      mm == parseInt(SubSeq(hhmm, 3, Len(hhmm)))
      t  == isoDay(clock) * DAY_SECONDS + hh * 3600 + mm * 60
  IN  IF t <= clock THEN t + DAY_SECONDS ELSE t

\* what the endpoints return now
currentMatches == [i \in 1..Len(MatchIds) |-> [id |-> MatchIds[i], st |-> feed[MatchIds[i]], src |-> "current"]]
allMatches == [i \in 1..Len(MatchIds) |-> [id |-> MatchIds[i], st |-> feed[MatchIds[i]], src |-> "matches"]]

OnDay(e, iso) == StaticInfo[e.id].day = iso

\* getMatchesForISO(iso) and getTodayMatches()
getMatchesForISO(iso) == SelectSeq(allMatches, LAMBDA e : OnDay(e, iso))
getTodayMatches == getMatchesForISO(todayISO)

isTodayOrLive(m) == IF m.day = todayISO THEN TRUE ELSE Classified[m].live

(* --------------------- the synchronous runs of tick ------------------- *)

\* Between two awaits the code of tick runs without interruption. A run is
\* computed on a record st: the tick's locals (tk), the configuration in
\* memory (data), the file (disk), what was noted (notes), which call of
\* saveData fails in this run (sf: none when 0), and whether an exception is
\* on its way to the catch of tick (thrown).

GuildOf(tk) == TenantOrder[tk.idx]

Note(tk, kind, mid, val) ==
  [g |-> GuildOf(tk), kind |-> kind, mid |-> mid, val |-> val, now |-> tk.now,
   serial |-> tk.serial]

\* saveData(): fs.writeFileSync writes the whole of data, or throws
saveData(st) ==
  IF st.sf = 1
  THEN [st EXCEPT !.sf = 0, !.thrown = TRUE]
  ELSE [st EXCEPT !.disk = st.data, !.sf = IF @ > 1 THEN @ - 1 ELSE 0]

\* no guild is passed over
SkippedNever(cfg) == FALSE

\* if(cfg.is_paused) continue; const channelId=cfg.channel_id; if(!channelId) continue;
Skipped(cfg) == cfg.is_paused \/ cfg.channel_id = Absent

\* for(const [gId,cfg] of Object.entries(data)): the loop from entry i on, up
\* to the await of client.channels.fetch or the end of the loop
RECURSIVE NextTenantFrom(_, _)
NextTenantFrom(st, i) ==
  IF i > Len(TenantOrder)
  THEN [st EXCEPT !.tk.pc = "done", !.tk.idx = i]
  ELSE LET cfg == st.data[TenantOrder[i]]
           s1  == [st EXCEPT !.tk.visited = @ \cup {TenantOrder[i]}]
       IN  IF Skipped(cfg)
           THEN NextTenantFrom(s1, i + 1)
           ELSE [s1 EXCEPT !.tk.pc = "chan", !.tk.idx = i, !.tk.posted = {},
                           !.tk.fetchFailed = FALSE]

\* an exception escaping the loop of tick: the tick ends where it is
EscapeTick(st) == [st EXCEPT !.thrown = FALSE, !.tk.pc = "escaped"]

\* catch(e){ console.log('[tick error]', e); } and on to the next guild
CatchInTick(st) ==
  NextTenantFrom([st EXCEPT !.thrown = FALSE, !.tk.threw = @ \cup {GuildOf(st.tk)}],
                 st.tk.idx + 1)

\* the end of the try block of a guild
EndTenant(st) == NextTenantFrom(st, st.tk.idx + 1)

SummaryKey(br) == IF br = "B" THEN "fallback_summary" ELSE "next_summary"

\* the gate of the daily branches: now>=nextRun, always true
SummaryDueAlways(now, nextRun) == TRUE

\* the gate of the daily branches: now>=nextRun
SummaryDue(now, nextRun) == now >= nextRun

\* branches B and C up to their first await: initialise the due time, or
\* start the summary when it is due
SummaryCheck(st, br) ==
  LET g   == GuildOf(st.tk)
      key == SummaryKey(br)
      nextRun == st.data[g][key]
      s0  == [st EXCEPT !.notes = @ \cup {Note(st.tk, br, "", 0)}]
  IN  IF nextRun = 0
      THEN LET s1 == saveData([s0 EXCEPT !.data[g][key] = hhmmToNextDate(st.tk.dailyHHMM),
                                         !.tk.wrote = TRUE])
           IN  IF s1.thrown THEN CatchInTick(s1) ELSE EndTenant(s1)
      ELSE IF SummaryDue(st.tk.now, nextRun)
      THEN [s0 EXCEPT !.tk.pc = "S_cur", !.tk.br = br, !.tk.nextRun = nextRun]
      ELSE EndTenant(s0)

\* if(mode==='daily'){...}
AfterB(st) == IF st.tk.mode = "daily" THEN SummaryCheck(st, "C") ELSE EndTenant(st)

\* if(mode==='custom' && sel.size===0){...} and what follows it
AfterA(st) ==
  IF st.tk.mode = "custom" /\ st.tk.sel = <<>> THEN SummaryCheck(st, "B") ELSE AfterB(st)

\* the throttle of the score updates: now-last>=POLL_SECONDS-5
ThrottlePassed(now, last) == now - last >= POLL_SECONDS - GRACE_SECONDS

\* the due time of branch A with the backoff whatever the matches do
NextDueCustomIdle(now, anyLive) == now + IDLE_BACKOFF_SECONDS

\* cfg[key]=now+(anyLive? POLL_SECONDS : IDLE_BACKOFF_SECONDS)
NextDueCustom(now, anyLive) ==
  now + (IF anyLive THEN POLL_SECONDS ELSE IDLE_BACKOFF_SECONDS)

SelectedAndRelevant(tk, m) ==
  /\ Has(tk.sel, matchIdOf(m))
  /\ categoryAllowed(m, tk.filters)
  /\ genderAllowed(m, tk.genders)
  /\ teamAllowed(m, tk.teams)

\* for(const m of matches){...} of branch A from entry tk.mi on, up to the
\* next await, and past the loop the new due time and what follows branch A
RECURSIVE ALoop(_, _)
ALoop(st, lp) ==
  LET tk == st.tk
      g  == GuildOf(tk)
  IN  IF tk.mi > Len(tk.matches)
      THEN LET s1 == saveData([st EXCEPT !.data[g].next_due = NextDueCustom(tk.now, tk.anyLive),
                                         !.tk.wrote = TRUE])
           IN  IF s1.thrown THEN CatchInTick(s1) ELSE AfterA(s1)
      ELSE LET m   == MatchRecord(tk.matches[tk.mi])
               mid == matchIdOf(m)
           IN  IF ~SelectedAndRelevant(tk, m)
               THEN ALoop([st EXCEPT !.tk.mi = @ + 1], lp)
               ELSE IF Classified[m].finished
               THEN [st EXCEPT !.tk.pc = "A_sc"]
               ELSE IF Classified[m].live
               THEN IF ThrottlePassed(tk.now, lp[mid])
                    THEN [st EXCEPT !.tk.pc = "A_send", !.tk.anyLive = TRUE]
                    ELSE ALoop([st EXCEPT !.tk.mi = @ + 1, !.tk.anyLive = TRUE,
                                          !.notes = @ \cup {Note(tk, "throttled", mid, lp[mid])}], lp)
               ELSE ALoop([st EXCEPT !.tk.mi = @ + 1], lp)

\* v || dflt, for a field that can be absent
OrElse(v, dflt) == IF v = Absent THEN dflt ELSE v
OrElseSet(v, dflt) == IF v = AbsentSet THEN dflt ELSE v
OrElseSeq(v, dflt) == IF v = AbsentSeq THEN dflt ELSE v

\* the gate of branch A: now>=nextDue
CustomDue(now, nextDue) == now >= nextDue

\* the branches of a guild, entered once its channel is fetched
EnterBranches(st) ==
  LET g   == GuildOf(st.tk)
      cfg == st.data[g]
      s0  == [st EXCEPT !.tk.mode = OrElse(cfg.mode, "daily"),
                        !.tk.filters = OrElseSet(cfg.filters, AllCategories),
                        !.tk.sel = OrElseSeq(cfg.selected_match_ids, <<>>),
                        !.tk.dailyHHMM = OrElseSeq(cfg.daily_time, DAILY_SUMMARY_HHMM),
                        !.tk.teams = OrElseSeq(cfg.team_filters, <<>>),
                        !.tk.genders = OrElseSet(cfg.gender_filters, AllGenders)]
  IN  IF s0.tk.mode = "custom" /\ s0.tk.sel # <<>>
      THEN LET s1 == [s0 EXCEPT !.notes = @ \cup {Note(s0.tk, "A", "", 0)}]
           IN  IF CustomDue(s1.tk.now, cfg.next_due)
               THEN [s1 EXCEPT !.tk.pc = "A_fetch"]
               ELSE AfterA(s1)
      ELSE AfterA(s0)

\* sel.delete(mid); data[gId].selected_match_ids=[...sel]; saveData(); and the
\* await of the notice
StopTracking(st) ==
  LET tk  == st.tk
      g   == GuildOf(tk)
      mid == tk.matches[tk.mi].id
      sel == Without(tk.sel, mid)
      s1  == saveData([st EXCEPT !.tk.sel = sel, !.data[g].selected_match_ids = sel,
                                 !.tk.wrote = TRUE])
  IN  IF s1.thrown THEN CatchInTick(s1) ELSE [s1 EXCEPT !.tk.pc = "A_stop"]

\* a failure of the scorecard or of its post ends the guild's turn
FinalFailureThrown(st) == CatchInTick(st)

\* try{ ...fetchScorecard... channel.send({content:'Final scorecard:', embeds}) }catch{}
\* a failure of the two is dropped and the code goes on to sel.delete(mid)
FinalFailureDropped(st) == StopTracking(st)

\* the records of a list by identity, the first record of an identity kept
RECURSIVE byIdValuesFirstWins(_, _)
byIdValuesFirstWins(list, acc) ==
  IF list = <<>> THEN acc
  ELSE IF \E i \in 1..Len(acc) : acc[i].id = Head(list).id
  THEN byIdValuesFirstWins(Tail(list), acc)
  ELSE byIdValuesFirstWins(Tail(list), Append(acc, Head(list)))

\* const byId={}; for(const m of [...todays,...current]) byId[matchIdOf(m)]=m;
\* Object.values(byId)
RECURSIVE byIdValues(_, _)
byIdValues(list, acc) ==
  IF list = <<>> THEN acc
  ELSE LET e == Head(list)
       IN  IF \E i \in 1..Len(acc) : acc[i].id = e.id
           THEN byIdValues(Tail(list),
                           [i \in 1..Len(acc) |-> IF acc[i].id = e.id THEN e ELSE acc[i]])
           ELSE byIdValues(Tail(list), Append(acc, e))

\* the filter of the fallback summary (branch B)
FallbackRelevant(tk, m) ==
  LET cat == Classified[m].category
      ok  == \/ cat = "international"
             \/ (cat = "domestic" /\ Classified[m].indianDomestic)
             \/ (cat = "first-class" /\ Classified[m].indianDomestic)
  IN  ok /\ isTodayOrLive(m) /\ genderAllowed(m, tk.genders) /\ teamAllowed(m, tk.teams)

\* the filter of the daily summary without the categories
DailyRelevantAnyCategory(tk, m) ==
  /\ isTodayOrLive(m)
  /\ genderAllowed(m, tk.genders)
  /\ teamAllowed(m, tk.teams)

\* the filter of the daily summary (branch C)
DailyRelevant(tk, m) ==
  /\ categoryAllowed(m, tk.filters)
  /\ isTodayOrLive(m)
  /\ genderAllowed(m, tk.genders)
  /\ teamAllowed(m, tk.teams)

\* the matches of a summary with the filter of branch B in both branches
SummaryMatchesFallbackForAll(tk, todays, current) ==
  SelectSeq(byIdValues(todays \o current, <<>>),
         LAMBDA e : FallbackRelevant(tk, MatchRecord(e)))

\* Object.values(byId).filter(...) of branch B and of branch C
SummaryMatches(tk, todays, current) ==
  SelectSeq(byIdValues(todays \o current, <<>>),
         LAMBDA e : IF tk.br = "B" THEN FallbackRelevant(tk, MatchRecord(e))
                    ELSE DailyRelevant(tk, MatchRecord(e)))

\* formatTomorrowList: the fixtures listed, none when the message says so
formatTomorrowList(matches, genders, teams) ==
  SelectSeq(matches, LAMBDA e : /\ Classified[MatchRecord(e)].category = "international"
                             /\ genderAllowed(MatchRecord(e), genders)
                             /\ teamAllowed(MatchRecord(e), teams))

\* the due time written when a summary is through: from now
NextSummaryFromNow(now, nextRun) == now + DAY_SECONDS

\* the due time written when a summary is through:
\* Math.floor((new Date(nextRun*1000)).getTime()/1000)+86400
NextSummary(now, nextRun) == ((nextRun * 1000) \div 1000) + DAY_SECONDS

\* the summary is through and the tick writes back what it read of the guild
\* when it entered the branch, with the new due time
FinishSummaryFromCopy(st) ==
  LET tk == st.tk
      g  == GuildOf(tk)
      s1 == saveData([st EXCEPT !.data[g][SummaryKey(tk.br)] = tk.nextRun + DAY_SECONDS,
                                !.data[g].daily_time = tk.dailyHHMM,
                                !.tk.wrote = TRUE,
                                !.notes = @ \cup {Note(tk, "advanced", tk.br, tk.nextRun)}])
  IN  IF s1.thrown THEN CatchInTick(s1)
      ELSE IF tk.br = "B" THEN AfterB(s1) ELSE EndTenant(s1)

\* cfg[nrKey]=...; saveData(); and on past the branch
FinishSummary(st) ==
  LET tk == st.tk
      g  == GuildOf(tk)
      s1 == saveData([st EXCEPT !.data[g][SummaryKey(tk.br)] = NextSummary(tk.now, tk.nextRun),
                                !.tk.wrote = TRUE,
                                !.notes = @ \cup {Note(tk, "advanced", tk.br, tk.nextRun)}])
  IN  IF s1.thrown THEN CatchInTick(s1)
      ELSE IF tk.br = "B" THEN AfterB(s1) ELSE EndTenant(s1)

(* ------------------------------ actions ------------------------------- *)

\* the state a synchronous run of tick tk starts from
Begin(tk, sf) ==
  [tk |-> tk, data |-> data, disk |-> disk, notes |-> notes, sf |-> sf, thrown |-> FALSE]

EndedOf(tk) ==
  [serial |-> tk.serial, threw |-> tk.threw, visited |-> tk.visited, wrote |-> tk.wrote,
   quiet |-> tk.quiet, after |-> tk.after, clean |-> TRUE]

\* an await that fails (ok = FALSE) and a saveData that throws (sf > 0) are events
Affordable(ok, sf) ==
  nevents + (IF ok THEN 0 ELSE 1) + (IF sf > 0 THEN 1 ELSE 0) <= MaxEvents

\* the run ends: the tick is suspended at its next await, or it is over
Commit(t, base, st, ok, sf) ==
  /\ st.sf = 0
  /\ data' = st.data
  /\ disk' = st.disk
  /\ notes' = st.notes
  /\ nevents' = nevents + (IF ok THEN 0 ELSE 1) + (IF sf > 0 THEN 1 ELSE 0)
  /\ IF st.tk.pc = "done"
     THEN /\ ticks' = [base EXCEPT ![t] = IdleTick]
          /\ ended' = EndedOf(st.tk)
     ELSE /\ ticks' = [base EXCEPT ![t] = st.tk]
          /\ UNCHANGED ended
  /\ UNCHANGED <<probe, reply>>

\* which call of saveData throws in a run: none, the first or the second
SaveFaults == 0..2

InFlight == {t \in TickSlots : ticks[t].pc # "idle"}

\* the due time tick reads for guild g, 0 when it has to initialise one
DueOf(d, g) ==
  IF d[g].mode = "custom" /\ d[g].selected_match_ids # <<>> THEN d[g].next_due
  ELSE IF d[g].mode = "custom" THEN d[g].fallback_summary
  ELSE d[g].next_summary

\* no guild that tick would process has a due time that is unset or has come
NothingDue(d, now) ==
  \A g \in Tenants :
    (~d[g].is_paused /\ d[g].channel_id # Absent) => (DueOf(d, g) # 0 /\ now < DueOf(d, g))

\* marks every tick in flight as disturbed by something outside it
Disturbed == [t \in TickSlots |-> [ticks[t] EXCEPT !.quiet = FALSE]]

\* the clock moves on and the interval timer comes due
Advance(d) ==
  /\ ~armed
  /\ nticks < MaxTicks
  /\ clock' = clock + d
  /\ armed' = TRUE
  /\ UNCHANGED <<boot, nticks, nevents, data, disk, lastPostedByMatch, feed, ticks, posts,
                 notes, ended, probe, reply>>

\* tick() is called and runs up to its first await
StartTickCore(t) ==
  /\ ticks[t].pc = "idle"
  /\ \A u \in TickSlots : u < t => ticks[u].pc # "idle"
  /\ LET after == IF InFlight = {} /\ ended.serial = nticks /\ ended.serial > 0 /\ ended.clean
                  THEN (IF ended.wrote THEN "busy" ELSE "calm")
                  ELSE "none"
         tk0 == [IdleTick EXCEPT !.now = clock, !.serial = nticks + 1, !.after = after,
                                 !.quiet = (after # "none" /\ NothingDue(data, clock))]
     IN  Commit(t, Disturbed, NextTenantFrom(Begin(tk0, 0), 1), TRUE, 0)
  /\ nticks' = nticks + 1
  /\ UNCHANGED <<clock, lastPostedByMatch, feed, posts>>

\* setInterval(tick, 60*1000) fires
StartTick(t) ==
  /\ armed
  /\ StartTickCore(t)
  /\ armed' = FALSE
  /\ UNCHANGED boot

\* the timer fires only when no tick is in flight
StartTickAlone(t) == InFlight = {} /\ StartTick(t)

\* await client.channels.fetch(channelId).catch(()=>null) resolves
ChannelFetched(t) ==
  /\ ticks[t].pc = "chan"
  /\ \E ok \in BOOLEAN, sf \in SaveFaults :
       /\ Affordable(ok, sf)
       /\ LET st == Begin(ticks[t], sf)
          IN  Commit(t, ticks, IF ok THEN EnterBranches(st)
                                    ELSE NextTenantFrom(st, st.tk.idx + 1), ok, sf)
  /\ UNCHANGED <<boot, clock, armed, nticks, lastPostedByMatch, feed, posts>>

\* branch A: await getCurrentMatchesSafe() resolves
AFetched(t) ==
  /\ ticks[t].pc = "A_fetch"
  /\ \E ok \in BOOLEAN, sf \in SaveFaults :
       /\ Affordable(ok, sf)
       /\ LET tk == [ticks[t] EXCEPT !.matches = IF ok THEN currentMatches ELSE <<>>,
                                     !.mi = 1, !.anyLive = FALSE, !.fetchFailed = ~ok]
          IN  Commit(t, ticks, ALoop(Begin(tk, sf), lastPostedByMatch), ok, sf)
  /\ UNCHANGED <<boot, clock, armed, nticks, lastPostedByMatch, feed, posts>>

Post(tk, kind, mids) ==
  [g |-> GuildOf(tk), kind |-> kind, mids |-> mids, now |-> tk.now, serial |-> tk.serial]

CurrentMid(tk) == tk.matches[tk.mi].id

\* branch A: await fetchScorecard(mid) resolves or throws; embeds is never empty
AScorecard(t) ==
  /\ ticks[t].pc = "A_sc"
  /\ \E ok \in BOOLEAN, sf \in SaveFaults :
       /\ Affordable(ok, sf)
       /\ LET st == Begin(ticks[t], sf)
          IN  Commit(t, ticks, IF ok THEN [st EXCEPT !.tk.pc = "A_final"]
                                    ELSE FinalFailureDropped(st), ok, sf)
  /\ UNCHANGED <<boot, clock, armed, nticks, lastPostedByMatch, feed, posts>>

\* branch A: await channel.send({content:'Final scorecard:', embeds}) resolves or throws
AFinalSent(t) ==
  /\ ticks[t].pc = "A_final"
  /\ \E ok \in BOOLEAN, sf \in SaveFaults :
       /\ Affordable(ok, sf)
       /\ posts' = IF ok THEN posts \cup {Post(ticks[t], "final", <<CurrentMid(ticks[t])>>)}
                   ELSE posts
       /\ LET st == Begin([ticks[t] EXCEPT !.wrote = @ \/ ok], sf)
          IN  Commit(t, ticks, IF ok THEN StopTracking(st) ELSE FinalFailureDropped(st), ok, sf)
  /\ UNCHANGED <<boot, clock, armed, nticks, lastPostedByMatch, feed>>

\* branch A: await channel.send({content:'Stopped tracking ...'}) resolves or throws
AStopSent(t) ==
  /\ ticks[t].pc = "A_stop"
  /\ \E ok \in BOOLEAN, sf \in SaveFaults :
       /\ Affordable(ok, sf)
       /\ posts' = IF ok THEN posts \cup {Post(ticks[t], "stopped", <<CurrentMid(ticks[t])>>)}
                   ELSE posts
       /\ LET st == Begin(ticks[t], sf)
          IN  Commit(t, ticks,
                     IF ok THEN ALoop([st EXCEPT !.tk.mi = @ + 1, !.tk.wrote = TRUE],
                                      lastPostedByMatch)
                     ELSE CatchInTick(st), ok, sf)
  /\ UNCHANGED <<boot, clock, armed, nticks, lastPostedByMatch, feed>>

\* branch A: await channel.send({embeds:[buildEmbed(m)]}) resolves or throws
AScoreSent(t) ==
  /\ ticks[t].pc = "A_send"
  /\ \E ok \in BOOLEAN, sf \in SaveFaults :
       /\ Affordable(ok, sf)
       /\ LET tk  == ticks[t]
              mid == CurrentMid(tk)
              lp  == IF ok THEN [lastPostedByMatch EXCEPT ![mid] = tk.now]
                     ELSE lastPostedByMatch
              st  == Begin(tk, sf)
          IN  /\ posts' = IF ok THEN posts \cup {Post(tk, "score", <<mid>>)} ELSE posts
              /\ lastPostedByMatch' = lp
              /\ Commit(t, ticks,
                        IF ok THEN ALoop([st EXCEPT !.tk.mi = @ + 1, !.tk.wrote = TRUE,
                                                    !.tk.posted = @ \cup {mid}], lp)
                        ELSE CatchInTick(st), ok, sf)
  /\ UNCHANGED <<boot, clock, armed, nticks, feed>>

\* branches B and C: await getCurrentMatchesSafe() resolves
SCurFetched(t) ==
  /\ ticks[t].pc = "S_cur"
  /\ \E ok \in BOOLEAN, sf \in SaveFaults :
       /\ Affordable(ok, sf)
       /\ LET tk == [ticks[t] EXCEPT !.cur = IF ok THEN currentMatches ELSE <<>>,
                                     !.fetchFailed = ~ok, !.pc = "S_today"]
          IN  Commit(t, ticks, Begin(tk, sf), ok, sf)
  /\ UNCHANGED <<boot, clock, armed, nticks, lastPostedByMatch, feed, posts>>

\* branches B and C: await getTodayMatchesSafe() resolves, and the matches
\* to summarise are chosen
STodayFetched(t) ==
  /\ ticks[t].pc = "S_today"
  /\ \E ok \in BOOLEAN, sf \in SaveFaults :
       /\ Affordable(ok, sf)
       /\ LET tk0 == ticks[t]
              ms  == SummaryMatches(tk0, IF ok THEN getTodayMatches ELSE <<>>, tk0.cur)
              tk  == [tk0 EXCEPT !.matches = ms, !.mi = 1, !.cur = <<>>,
                                 !.fetchFailed = @ \/ ~ok,
                                 !.pc = IF ms = <<>> THEN "S_none" ELSE "S_batch"]
          IN  Commit(t, ticks, Begin(tk, sf), ok, sf)
  /\ UNCHANGED <<boot, clock, armed, nticks, lastPostedByMatch, feed, posts>>

\* branches B and C: await channel.send('No ... matches to summarize today') resolves or throws
SNoneSent(t) ==
  /\ ticks[t].pc = "S_none"
  /\ \E ok \in BOOLEAN, sf \in SaveFaults :
       /\ Affordable(ok, sf)
       /\ posts' = IF ok THEN posts \cup {Post(ticks[t], "nomatches", <<>>)} ELSE posts
       /\ LET st == Begin(ticks[t], sf)
          IN  Commit(t, ticks, IF ok THEN [st EXCEPT !.tk.pc = "T_fetch", !.tk.wrote = TRUE]
                                    ELSE CatchInTick(st), ok, sf)
  /\ UNCHANGED <<boot, clock, armed, nticks, lastPostedByMatch, feed>>

Min(a, b) == IF a <= b THEN a ELSE b

MidsOf(entries) == [i \in 1..Len(entries) |-> entries[i].id]

\* branches B and C: await channel.send({embeds:slice.map(buildEmbed)}) of one
\* slice of 8 resolves or throws
SBatchSent(t) ==
  /\ ticks[t].pc = "S_batch"
  /\ \E ok \in BOOLEAN, sf \in SaveFaults :
       /\ Affordable(ok, sf)
       /\ LET tk    == ticks[t]
              slice == SubSeq(tk.matches, tk.mi, Min(Len(tk.matches), tk.mi + BATCH_SIZE - 1))
              st    == Begin(tk, sf)
              more  == tk.mi + BATCH_SIZE <= Len(tk.matches)
          IN  /\ posts' = IF ok THEN posts \cup {Post(tk, "summary", MidsOf(slice))} ELSE posts
              /\ Commit(t, ticks,
                        IF ok THEN [st EXCEPT !.tk.mi = @ + BATCH_SIZE, !.tk.wrote = TRUE,
                                              !.tk.pc = IF more THEN "S_batch" ELSE "T_fetch"]
                        ELSE CatchInTick(st), ok, sf)
  /\ UNCHANGED <<boot, clock, armed, nticks, lastPostedByMatch, feed>>

\* sendTomorrowsInternationals: await getMatchesForISOSafe(iso) resolves
TFetched(t) ==
  /\ ticks[t].pc = "T_fetch"
  /\ \E ok \in BOOLEAN, sf \in SaveFaults :
       /\ Affordable(ok, sf)
       /\ LET tk0 == ticks[t]
              cfg == data[GuildOf(tk0)]
              ms  == formatTomorrowList(IF ok THEN getMatchesForISO(tomorrowISO) ELSE <<>>,
                                        cfg.gender_filters, cfg.team_filters)
              tk  == [tk0 EXCEPT !.matches = ms, !.fetchFailed = @ \/ ~ok, !.pc = "T_send"]
          IN  Commit(t, ticks, Begin(tk, sf), ok, sf)
  /\ UNCHANGED <<boot, clock, armed, nticks, lastPostedByMatch, feed, posts>>

\* the end of a summary without the message of tomorrow's fixtures
TSentSilent(t) ==
  /\ ticks[t].pc = "T_send"
  /\ \E ok \in BOOLEAN, sf \in SaveFaults :
       /\ Affordable(ok, sf)
       /\ LET st == Begin(ticks[t], sf)
          IN  Commit(t, ticks, IF ok THEN FinishSummary([st EXCEPT !.tk.wrote = TRUE])
                                    ELSE CatchInTick(st), ok, sf)
  /\ UNCHANGED <<boot, clock, armed, nticks, lastPostedByMatch, feed, posts>>

\* sendTomorrowsInternationals: await channel.send({content:c}) resolves or
\* throws; then the due time of the branch moves on
TSent(t) ==
  /\ ticks[t].pc = "T_send"
  /\ \E ok \in BOOLEAN, sf \in SaveFaults :
       /\ Affordable(ok, sf)
       /\ LET tk == ticks[t]
              st == Begin(tk, sf)
          IN  /\ posts' = IF ok THEN posts \cup {Post(tk, IF tk.matches = <<>> THEN "tomorrow_none"
                                                          ELSE "tomorrow", MidsOf(tk.matches))}
                          ELSE posts
              /\ Commit(t, ticks, IF ok THEN FinishSummary([st EXCEPT !.tk.wrote = TRUE])
                                        ELSE CatchInTick(st), ok, sf)
  /\ UNCHANGED <<boot, clock, armed, nticks, lastPostedByMatch, feed>>

(* --------------------------- admin commands --------------------------- *)

\* a command of an administrator changes data[g] to cfg and calls saveData()
AdminWrites(g, cfg) ==
  /\ nevents < MaxEvents
  /\ nevents' = nevents + 1
  /\ data' = [data EXCEPT ![g] = cfg]
  /\ disk' = data'
  /\ ticks' = Disturbed
  /\ ended' = [ended EXCEPT !.clean = FALSE]
  /\ UNCHANGED <<boot, clock, armed, nticks, lastPostedByMatch, feed, posts, notes, probe, reply>>

\* /stop
Stop(g) == AdminWrites(g, [data[g] EXCEPT !.is_paused = TRUE])

\* /start
Start(g) == AdminWrites(g, [data[g] EXCEPT !.is_paused = FALSE])

\* /cricket-mode mode
CricketMode(g, mode) == AdminWrites(g, [data[g] EXCEPT !.mode = mode])

\* /cricket-select action match_id
CricketSelect(g, action, mid) ==
  AdminWrites(g, [data[g] EXCEPT !.selected_match_ids =
                    IF action = "add" THEN With(@, mid) ELSE Without(@, mid)])

DailyTimes == {<<"2","1","0","0">>, <<"0","6","0","0">>}

\* /^\d{4}$/.test(hhmm)
FourDigits(hhmm) == Len(hhmm) = 4 /\ \A i \in 1..Len(hhmm) : hhmm[i] \in Range(DigitChars)

\* /cricket-daily-time hhmm; a text that is not of four digits is answered
\* with a hint and changes nothing
CricketDailyTime(g, hhmm) ==
  /\ FourDigits(hhmm)
  /\ AdminWrites(g, [data[g] EXCEPT !.daily_time = hhmm, !.next_summary = 0,
                                    !.fallback_summary = 0])

(* ------------------------------ upstream ------------------------------ *)

\* upstream reports a match further on
UpstreamChange(m) ==
  /\ nevents < MaxEvents
  /\ nevents' = nevents + 1
  /\ \E s \in StatusAfter(feed[m]) : feed' = [feed EXCEPT ![m] = s]
  /\ ticks' = Disturbed
  /\ ended' = [ended EXCEPT !.clean = FALSE]
  /\ UNCHANGED <<boot, clock, armed, nticks, data, disk, lastPostedByMatch, posts, notes, probe, reply>>

(* --------------------------- specifications --------------------------- *)

TickStep(t) ==
  \/ ChannelFetched(t)
  \/ AFetched(t)
  \/ AScorecard(t)
  \/ AFinalSent(t)
  \/ AStopSent(t)
  \/ AScoreSent(t)
  \/ SCurFetched(t)
  \/ STodayFetched(t)
  \/ SNoneSent(t)
  \/ SBatchSent(t)
  \/ TFetched(t)
  \/ TSent(t)

Admin(g) ==
  \/ Stop(g)
  \/ Start(g)
  \/ \E mode \in {"custom", "daily"} : CricketMode(g, mode)
  \/ \E action \in {"add", "remove"}, mid \in Range(MatchIds) : CricketSelect(g, action, mid)
  \/ \E hhmm \in DailyTimes : CricketDailyTime(g, hhmm)

Environment ==
  \/ \E d \in Steps : Advance(d)
  \/ \E m \in Range(MatchIds) : UpstreamChange(m)

\* the program as it is: the timer starts a tick whether or not one is in flight
Next ==
  \/ \E t \in TickSlots : StartTick(t)
  \/ \E t \in TickSlots : TickStep(t)
  \/ \E g \in Tenants : Admin(g)
  \/ Environment

Spec == Init /\ [][Next]_vars

\* the executions in which no tick starts while another is in flight
NextSeq ==
  \/ \E t \in TickSlots : StartTickAlone(t)
  \/ \E t \in TickSlots : TickStep(t)
  \/ \E g \in Tenants : Admin(g)
  \/ Environment

SpecSeq == Init /\ [][NextSeq]_vars

(* ------------------------ more admin commands ------------------------ *)

\* String.prototype.split(',')
RECURSIVE split(_)
split(s) ==
  IF \A i \in 1..Len(s) : s[i] # ","
  THEN <<s>>
  ELSE LET i == CHOOSE k \in 1..Len(s) : s[k] = "," /\ \A j \in 1..(k - 1) : s[j] # ","
       IN  <<SubSeq(s, 1, i - 1)>> \o split(SubSeq(s, i + 1, Len(s)))

\* the names of the categories as text
CategoryText ==
  [c \in AllCategories |->
     CASE c = "international" -> <<"i","n","t","e","r","n","a","t","i","o","n","a","l">>
       [] c = "first-class"   -> <<"f","i","r","s","t","-","c","l","a","s","s">>
       [] c = "domestic"      -> <<"d","o","m","e","s","t","i","c">>
       [] c = "franchise"     -> <<"f","r","a","n","c","h","i","s","e">>]

\* categories.split(',').map(s=>norm(s)).filter(s=>valid.has(s))
chosenCategories(categories) ==
  {c \in AllCategories : \E i \in 1..Len(split(categories)) :
                           norm(split(categories)[i]) = CategoryText[c]}

\* what an admin types as the categories of /cricket-filters
CategoryInputs == {<<"I","n","t","e","r","n","a","t","i","o","n","a","l",","," ","F","r","a","n","c","h","i","s","e">>, <<"f","i","r","s","t","-","c","l","a","s","s">>, <<"t","e","s","t","s",",","o","d","i","s">>, <<",">>}

\* const chosen=..., computed once for each input
chosen == [categories \in CategoryInputs |-> chosenCategories(categories)]

\* /cricket-filters categories, with no look at what is left of the input
CricketFiltersUnchecked(g, categories) ==
  AdminWrites(g, [data[g] EXCEPT !.filters = chosen[categories]])

\* /cricket-filters categories: an input with no valid category is refused
CricketFilters(g, categories) ==
  IF chosen[categories] = {}
  THEN UNCHANGED vars
  ELSE AdminWrites(g, [data[g] EXCEPT !.filters = chosen[categories]])

\* /cricket-gender value
CricketGender(g, val) ==
  AdminWrites(g, [data[g] EXCEPT !.gender_filters = IF val = "both" THEN {"men", "women"}
                                                     ELSE {val}])

\* /cricket-reset
CricketReset(g) ==
  AdminWrites(g, [data[g] EXCEPT !.filters = {"international", "domestic"},
                                 !.gender_filters = {"men", "women"},
                                 !.team_filters = <<>>])

\* /cricket-channel channel
CricketChannel(g, ch) == AdminWrites(g, [data[g] EXCEPT !.channel_id = ch])

\* /cricket-teams action team, with a team given
CricketTeams(g, action, team) ==
  LET teams  == OrElseSeq(data[g].team_filters, <<>>)
      target == {i \in 1..Len(teams) : toLowerCase(teams[i]) = toLowerCase(trim(team))}
  IN  CASE action = "clear" -> AdminWrites(g, [data[g] EXCEPT !.team_filters = <<>>])
        [] action = "add" -> AdminWrites(g, [data[g] EXCEPT !.team_filters = With(teams, trim(team))])
        [] action = "remove" ->
             IF target = {} THEN UNCHANGED vars
             ELSE AdminWrites(g, [data[g] EXCEPT !.team_filters =
                                    Without(teams, teams[CHOOSE i \in target : \A j \in target : i <= j])])

\* /cricket-ping-toggle enabled
CricketPingToggle(g, enabled) == AdminWrites(g, [data[g] EXCEPT !.ping_enabled = enabled])

\* /cricket-ping-roles action role
CricketPingRoles(g, action, role) ==
  AdminWrites(g, [data[g] EXCEPT !.role_ids =
                    IF action = "add" THEN With(OrElseSeq(@, <<>>), role)
                    ELSE Without(OrElseSeq(@, <<>>), role)])

\* the slash commands that write the other fields of a guild
AdminCommands(g) ==
  \/ \E categories \in CategoryInputs : CricketFilters(g, categories)
  \/ \E val \in {"men", "women", "both"} : CricketGender(g, val)
  \/ CricketReset(g)
  \/ CricketChannel(g, "channel2")
  \/ \E action \in {"add", "remove", "clear"} : CricketTeams(g, action, <<" ","i","n","d","i","a"," ">>)
  \/ \E enabled \in BOOLEAN : CricketPingToggle(g, enabled)
  \/ \E action \in {"add", "remove"} : CricketPingRoles(g, action, "role")

\* the buttons settings_toggle_system, settings_toggle_mode, settings_toggle_pings
SettingsToggle(g, id) ==
  CASE id = "system" -> AdminWrites(g, [data[g] EXCEPT !.is_paused = ~@])
    [] id = "mode"   -> AdminWrites(g, [data[g] EXCEPT !.mode = IF @ = "custom" THEN "daily"
                                                               ELSE "custom"])
    [] id = "pings"  -> AdminWrites(g, [data[g] EXCEPT !.ping_enabled = ~@])

\* what a select menu built with setMinValues(1) can hand in: one or more of
\* its options
MenuValues(options) == SUBSET options \ {{}}

\* the select menu settings_select_categories: cfg.filters = interaction.values
SettingsSelectCategories(g, values) == AdminWrites(g, [data[g] EXCEPT !.filters = values])

\* the select menu settings_select_gender: cfg.gender_filters = interaction.values
SettingsSelectGender(g, values) == AdminWrites(g, [data[g] EXCEPT !.gender_filters = values])

\* the settings panel
AdminPanel(g) ==
  \/ \E id \in {"system", "mode", "pings"} : SettingsToggle(g, id)
  \/ \E values \in MenuValues(AllCategories) : SettingsSelectCategories(g, values)
  \/ \E values \in MenuValues(AllGenders) : SettingsSelectGender(g, values)

(* ------------------------ wider specifications ------------------------ *)

\* what upstream can report of the matches when the process starts
InitFeeds == {f \in [Range(MatchIds) -> {"live", "won"}] : f["m2"] = "live"}

\* the guild configurations of a data file, also one that an earlier release
\* wrote or that was edited by hand: a record without channel_id
InitGuildsWide ==
  InitGuilds \cup { [DefaultGuild(<<"m1">>, "custom") EXCEPT !.channel_id = Absent] }

\* the process starts with any data file and any state of upstream
InitWide ==
  /\ clock = StartClock
  /\ armed = TRUE
  /\ nticks = 0
  /\ nevents = 0
  /\ data \in [Tenants -> InitGuildsWide]
  /\ disk = data
  /\ lastPostedByMatch = [m \in Range(MatchIds) |-> 0]
  /\ feed \in InitFeeds
  /\ ticks = [t \in TickSlots |-> IdleTick]
  /\ posts = {}
  /\ notes = {}
  /\ ended = NoEnded
  /\ probe = NoProbe
  /\ reply = NoReply
  /\ boot = Booted(data, 0)

NextWide ==
  \/ \E t \in TickSlots : StartTickAlone(t)
  \/ \E t \in TickSlots : TickStep(t)
  \/ \E g \in Tenants : Admin(g)
  \/ \E g \in Tenants : AdminCommands(g)
  \/ Environment

SpecWide == InitWide /\ [][NextWide]_vars

(* ------------------- the classifier of status texts ------------------- *)

\* the words of a finished status, as upstream spells them
FinishedVocabulary ==
  { <<"s","t","u","m","p","s">>, <<"S","t","u","m","p","s">>, <<"a","b","a","n","d","o","n","e","d">>, <<"A","b","a","n","d","o","n","e","d">>, <<"n","o"," ","r","e","s","u","l","t">>, <<"N","o"," ","r","e","s","u","l","t">>,
    <<"c","o","m","p","l","e","t","e","d">>, <<"C","o","m","p","l","e","t","e","d">>, <<"w","o","n"," ","b","y">>, <<"W","o","n"," ","b","y">>, <<"f","i","n","i","s","h","e","d">>, <<"F","i","n","i","s","h","e","d">> }

\* what a status text has before and after the finished word
StatusPrefixes == { <<>>, <<"I","n","d","i","a"," ">>, <<"M","a","t","c","h"," ">>, <<"D","a","y"," ","2",":"," ">>, <<"I","n","n","i","n","g","s"," ","B","r","e","a","k"," ","-"," ">> }
StatusSuffixes == { <<>>, <<" ","5"," ","w","k","t","s">>, <<" ","d","u","e"," ","t","o"," ","r","a","i","n">> }

ProbeInputs ==
  { [NoProbe EXCEPT !.status = p \o w \o s, !.matchStarted = b] :
      p \in StatusPrefixes, w \in FinishedVocabulary, s \in StatusSuffixes, b \in BOOLEAN }

\* a match record with a finished status arrives, the process is idle
InitStatus ==
  /\ clock = StartClock
  /\ armed = FALSE
  /\ nticks = 0
  /\ nevents = 0
  /\ data = [g \in Tenants |-> DefaultGuild(<<>>, "daily")]
  /\ disk = data
  /\ lastPostedByMatch = [m \in Range(MatchIds) |-> 0]
  /\ feed = [m \in Range(MatchIds) |-> "live"]
  /\ ticks = [t \in TickSlots |-> IdleTick]
  /\ posts = {}
  /\ notes = {}
  /\ ended = NoEnded
  /\ probe \in ProbeInputs
  /\ reply = NoReply
  /\ boot = Booted(data, 0)

\* FINISHED_RE.test(String(m.status||'')) and relevantLive(m) of the record
ClassifyStatus ==
  /\ ~probe.done
  /\ probe' = [probe EXCEPT !.done = TRUE,
                            !.finished = FINISHED_RE(probe.status),
                            !.live = relevantLive(probe)]
  /\ UNCHANGED <<boot, clock, armed, nticks, nevents, data, disk, lastPostedByMatch, feed, ticks,
                 posts, notes, ended, reply>>

NextStatus == ClassifyStatus

SpecStatus == InitStatus /\ [][NextStatus]_vars

(* ------------------- the admin commands on their own ------------------ *)

\* the configurations of a guild that ensureGuild and the commands on the
\* filters, the mode and the pause lead to
AdminGuilds ==
  { [DefaultGuild(<<>>, mode) EXCEPT !.filters = f, !.gender_filters = gs, !.is_paused = p] :
      f \in MenuValues(AllCategories), gs \in MenuValues(AllGenders),
      mode \in {"daily", "custom"}, p \in BOOLEAN }

\* no tick is in flight and none starts; an admin works on the settings
InitAdmin ==
  /\ clock = StartClock
  /\ armed = FALSE
  /\ nticks = 0
  /\ nevents = 0
  /\ data \in {d \in [Tenants -> AdminGuilds] : d[TenantOrder[2]] = DefaultGuild(<<>>, "daily")}
  /\ disk = data
  /\ lastPostedByMatch = [m \in Range(MatchIds) |-> 0]
  /\ feed = [m \in Range(MatchIds) |-> "live"]
  /\ ticks = [t \in TickSlots |-> IdleTick]
  /\ posts = {}
  /\ notes = {}
  /\ ended = NoEnded
  /\ probe = NoProbe
  /\ reply = NoReply
  /\ boot = Booted(data, 0)

NextAdmin ==
  \/ \E g \in Tenants : Admin(g)
  \/ \E g \in Tenants : AdminCommands(g)
  \/ \E g \in Tenants : AdminPanel(g)

SpecAdmin == InitAdmin /\ [][NextAdmin]_vars

(* -------------------------- lookup commands --------------------------- *)

\* a lookup command of guild g ends: cfg is what it leaves of the guild's
\* configuration, saved when the command wrote it, and r is how it ended
Lookup(g, cfg, r) ==
  /\ data' = [data EXCEPT ![g] = cfg]
  /\ disk' = IF cfg # data[g] THEN data' ELSE disk
  /\ reply' = r
  /\ UNCHANGED <<boot, clock, armed, nticks, nevents, lastPostedByMatch, feed, ticks, posts, notes,
                 ended, probe>>

\* /cricket-list: getCurrentMatches() throws into the catch of the handler,
\* which does not answer a deferred interaction; else the matches are listed
CricketList(g, ok) ==
  LET cfg     == data[g]
      matches == SelectSeq(currentMatches, LAMBDA e :
                   /\ categoryAllowed(MatchRecord(e), OrElseSet(cfg.filters, {}))
                   /\ genderAllowed(MatchRecord(e), OrElseSet(cfg.gender_filters, AllGenders))
                   /\ teamAllowed(MatchRecord(e), OrElseSeq(cfg.team_filters, <<>>)))
  IN  Lookup(g, cfg,
             [g |-> g, cmd |-> "cricket-list", upstreamFailed |-> ~ok,
              kind |-> IF ~ok THEN "unanswered" ELSE IF matches = <<>> THEN "empty" ELSE "list",
              mids |-> IF ok THEN MidsOf(matches) ELSE <<>>])

\* /cricket-summary match_id: fetchScorecard throws, gives nothing to show,
\* or gives a scorecard
CricketSummary(g, mid, sc) ==
  Lookup(g, data[g],
         [g |-> g, cmd |-> "cricket-summary", upstreamFailed |-> (sc = "throws"),
          kind |-> CASE sc = "throws" -> "failed"
                     [] sc = "nothing" -> "unavailable"
                     [] sc = "scorecard" -> "scorecard",
          mids |-> <<mid>>])

\* /cricket-tomorrow: getMatchesForISOSafe gives [] when the fetch throws
CricketTomorrow(g, ok) ==
  LET cfg     == data[g]
      matches == formatTomorrowList(IF ok THEN getMatchesForISO(tomorrowISO) ELSE <<>>,
                                    OrElseSet(cfg.gender_filters, AllGenders),
                                    OrElseSeq(cfg.team_filters, <<>>))
  IN  Lookup(g, cfg,
             [g |-> g, cmd |-> "cricket-tomorrow", upstreamFailed |-> ~ok,
              kind |-> IF matches = <<>> THEN "empty" ELSE "list",
              mids |-> MidsOf(matches)])

\* /set-match category [channel]: the channel is written first; then
\* getCurrentMatches() or getTodayMatches() throws into the catch of the
\* handler, or the candidates are shown in a menu
SetMatch(g, category, channelOpt, ok) ==
  LET cfg        == IF channelOpt = Absent THEN data[g]
                    ELSE [data[g] EXCEPT !.channel_id = channelOpt]
      candidates == SelectSeq(byIdValues(getTodayMatches \o currentMatches, <<>>), LAMBDA e :
                      /\ Classified[MatchRecord(e)].category = category
                      /\ isTodayOrLive(MatchRecord(e))
                      /\ genderAllowed(MatchRecord(e), OrElseSet(cfg.gender_filters, AllGenders))
                      /\ teamAllowed(MatchRecord(e), OrElseSeq(cfg.team_filters, <<>>)))
  IN  Lookup(g, cfg,
             [g |-> g, cmd |-> "set-match", upstreamFailed |-> ~ok,
              kind |-> IF ~ok THEN "unanswered"
                       ELSE IF candidates = <<>> THEN "empty" ELSE "menu",
              mids |-> IF ok THEN MidsOf(candidates) ELSE <<>>])

\* the collector of /set-match ends with 'confirm' and a match selected
SetMatchConfirm(g, mid) ==
  /\ reply.cmd = "set-match" /\ reply.kind = "menu" /\ reply.g = g /\ Has(reply.mids, mid)
  /\ AdminWrites(g, [data[g] EXCEPT !.selected_match_ids = With(OrElseSeq(@, <<>>), mid),
                                    !.mode = "custom"])

\* the guild configurations of a data file, also records without filters
LookupGuilds ==
  { DefaultGuild(<<>>, "daily"),
    [DefaultGuild(<<>>, "daily") EXCEPT !.filters = AbsentSet],
    [DefaultGuild(<<>>, "custom") EXCEPT !.gender_filters = AbsentSet],
    [DefaultGuild(<<>>, "daily") EXCEPT !.filters = {"franchise"}, !.gender_filters = {"women"}] }

\* no tick is in flight and none starts; users look matches up
InitLookup ==
  /\ clock = StartClock
  /\ armed = FALSE
  /\ nticks = 0
  /\ nevents = 0
  /\ data \in [Tenants -> LookupGuilds]
  /\ disk = data
  /\ lastPostedByMatch = [m \in Range(MatchIds) |-> 0]
  /\ feed \in [Range(MatchIds) -> {"notstarted", "live", "won"}]
  /\ ticks = [t \in TickSlots |-> IdleTick]
  /\ posts = {}
  /\ notes = {}
  /\ ended = NoEnded
  /\ probe = NoProbe
  /\ reply = NoReply
  /\ boot = Booted(data, 0)

NextLookup ==
  \/ \E g \in Tenants, ok \in BOOLEAN : CricketList(g, ok)
  \/ \E g \in Tenants, mid \in Range(MatchIds), sc \in {"throws", "nothing", "scorecard"} :
       CricketSummary(g, mid, sc)
  \/ \E g \in Tenants, ok \in BOOLEAN : CricketTomorrow(g, ok)
  \/ \E g \in Tenants, category \in {"international", "domestic"},
         channelOpt \in {Absent, "channel2"}, ok \in BOOLEAN : SetMatch(g, category, channelOpt, ok)
  \/ \E g \in Tenants, mid \in Range(MatchIds) : SetMatchConfirm(g, mid)

SpecLookup == InitLookup /\ [][NextLookup]_vars

(* ----------------------------- the process ---------------------------- *)

\* a data file without the due times
loadDataWithoutDues(file) ==
  [g \in DOMAIN file |-> [file[g] EXCEPT !.next_due = 0, !.fallback_summary = 0,
                                        !.next_summary = 0]]

\* loadData(): JSON.parse(fs.readFileSync(DATA_FILE,'utf8'))
loadData(file) == file

\* the process ends while no tick is in flight and is started again:
\* const data=loadData(); const lastPostedByMatch={}; and onBoot registers the
\* interval timer anew, which fires a period later
Restart ==
  /\ InFlight = {}
  /\ boot.serial = 0
  /\ 0 < nticks /\ nticks < MaxTicks
  /\ data' = loadData(disk)
  /\ lastPostedByMatch' = [m \in Range(MatchIds) |-> 0]
  /\ armed' = FALSE
  /\ ended' = [ended EXCEPT !.clean = FALSE]
  /\ boot' = [Booted(disk, nticks) EXCEPT !.events = nevents]
  /\ UNCHANGED <<clock, nticks, nevents, disk, feed, ticks, posts, notes, probe, reply>>

\* ticks that do not overlap, and a restart between two of them
NextRestart ==
  \/ \E t \in TickSlots : StartTickAlone(t)
  \/ \E t \in TickSlots : TickStep(t)
  \/ \E g \in Tenants : Admin(g)
  \/ Environment
  \/ Restart

SpecRestart == Init /\ [][NextRestart]_vars

(* -------------------- the classifier of categories -------------------- *)

\* series names as upstream gives them: of franchise leagues, also with the
\* words of other categories in them, of domestic and of international
\* cricket, and none
SeriesInputs ==
  { <<"I","n","d","i","a","n"," ","P","r","e","m","i","e","r"," ","L","e","a","g","u","e"," ","2","0","2","5">>, <<"B","i","g"," ","B","a","s","h"," ","L","e","a","g","u","e"," ","-"," ","T","e","s","t"," ","S","e","r","i","e","s">>,
    <<"T","h","e"," ","H","u","n","d","r","e","d"," ","F","o","u","r","-","D","a","y"," ","I","n","t","e","r","n","a","t","i","o","n","a","l">>, <<"A","b","u"," ","D","h","a","b","i"," ","T","1","0"," ","L","i","s","t"," ","A">>,
    <<"R","a","n","j","i"," ","T","r","o","p","h","y"," ","E","l","i","t","e"," ","2","0","2","5">>, <<"V","i","j","a","y"," ","H","a","z","a","r","e"," ","T","r","o","p","h","y"," ","2","0","2","5">>,
    <<"A","u","s","t","r","a","l","i","a"," ","t","o","u","r"," ","o","f"," ","I","n","d","i","a",","," ","2","0","2","5">>, <<"I","C","C"," ","W","o","r","l","d"," ","C","u","p"," ","2","0","2","7">>, <<>> }

MatchTypeInputs == { <<"t","2","0">>, <<"T","2","0","I">>, <<"o","d","i">>, <<"t","e","s","t">>, <<"f","i","r","s","t"," ","c","l","a","s","s">>, <<>> }

\* participant lists: with a region of India in a name or a short name, as a
\* word or as a part of one, and without any
TeamInputs ==
  { << [name |-> <<"M","u","m","b","a","i">>, shortname |-> <<"M","U","M">>], [name |-> <<"D","e","l","h","i">>, shortname |-> <<"D","E","L">>] >>,
    << [name |-> <<"P","u","n","j","a","b"," ","K","i","n","g","s">>, shortname |-> <<"P","B","K","S">>],
       [name |-> <<"C","h","e","n","n","a","i"," ","S","u","p","e","r"," ","K","i","n","g","s">>, shortname |-> <<"C","S","K">>] >>,
    << [name |-> <<"T","A","M","I","L"," "," ","N","A","D","U">>, shortname |-> <<"T","N">>], [name |-> <<"K","e","r","a","l","a">>, shortname |-> <<"K","E","R">>] >>,
    << [name |-> <<"T","e","a","m"," ","A">>, shortname |-> <<"G","o","a">>], [name |-> <<"T","e","a","m"," ","B">>, shortname |-> <<"T","B">>] >>,
    << [name |-> <<"R","o","y","a","l"," ","C","h","a","l","l","e","n","g","e","r","s"," ","B","e","n","g","a","l","u","r","u">>, shortname |-> <<"R","C","B">>],
       [name |-> <<"C","h","e","n","n","a","i"," ","S","u","p","e","r"," ","K","i","n","g","s">>, shortname |-> <<"C","S","K">>] >>,
    << [name |-> <<"I","n","d","i","a">>, shortname |-> <<"I","N","D">>], [name |-> <<"A","u","s","t","r","a","l","i","a">>, shortname |-> <<"A","U","S">>] >>,
    << [name |-> <<"S","y","d","n","e","y"," ","S","i","x","e","r","s">>, shortname |-> <<"S","I","X">>],
       [name |-> <<"P","e","r","t","h"," ","S","c","o","r","c","h","e","r","s">>, shortname |-> <<"S","C","O">>] >>,
    << >> }

\* no record was handed to guessCategory
NoMatchProbe ==
  [name |-> <<"M","a","t","c","h">>, series |-> <<>>, matchType |-> <<>>, teamInfo |-> <<>>,
   done |-> FALSE, category |-> ""]

MatchProbeInputs ==
  { [NoMatchProbe EXCEPT !.series = s, !.matchType = mt, !.teamInfo = ti] :
      s \in SeriesInputs, mt \in MatchTypeInputs, ti \in TeamInputs }

\* a match record arrives, the process is idle
InitClassify ==
  /\ clock = StartClock
  /\ armed = FALSE
  /\ nticks = 0
  /\ nevents = 0
  /\ data = [g \in Tenants |-> DefaultGuild(<<>>, "daily")]
  /\ disk = data
  /\ lastPostedByMatch = [m \in Range(MatchIds) |-> 0]
  /\ feed = [m \in Range(MatchIds) |-> "live"]
  /\ ticks = [t \in TickSlots |-> IdleTick]
  /\ posts = {}
  /\ notes = {}
  /\ ended = NoEnded
  /\ probe \in MatchProbeInputs
  /\ reply = NoReply
  /\ boot = Booted(data, 0)

\* guessCategory(match) of the record
ClassifyCategory ==
  /\ ~probe.done
  /\ probe' = [probe EXCEPT !.done = TRUE, !.category = guessCategory(probe)]
  /\ UNCHANGED <<boot, clock, armed, nticks, nevents, data, disk, lastPostedByMatch, feed, ticks,
                 posts, notes, ended, reply>>

NextClassify == ClassifyCategory

SpecClassify == InitClassify /\ [][NextClassify]_vars

(* --------------------- a day with two matches on it ------------------- *)

\* 21:00:00 UTC of day 3, the day of m1; m2 began the day before and goes on
ScenarioClock == 3 * DAY_SECONDS + 21 * 3600

\* a guild as ensureGuild creates it, with a daily summary that is due
ScenarioGuild == [DefaultGuild(<<>>, "daily") EXCEPT !.next_summary = ScenarioClock]

\* the timer fires at 21:00:00 of day 3; one guild at least is as ensureGuild
\* created it; m2 is in play and m1 is to begin, in play or over
InitScenario ==
  /\ clock = ScenarioClock
  /\ armed = TRUE
  /\ nticks = 0
  /\ nevents = 0
  /\ data \in {d \in [Tenants -> InitGuilds \cup {ScenarioGuild}] :
                 \E g \in Tenants : d[g] = ScenarioGuild}
  /\ disk = data
  /\ lastPostedByMatch = [m \in Range(MatchIds) |-> 0]
  /\ feed \in {f \in [Range(MatchIds) -> {"notstarted", "live", "won"}] : f["m2"] = "live"}
  /\ ticks = [t \in TickSlots |-> IdleTick]
  /\ posts = {}
  /\ notes = {}
  /\ ended = NoEnded
  /\ probe = NoProbe
  /\ reply = NoReply
  /\ boot = Booted(data, 0)

SpecScenario == InitScenario /\ [][NextSeq]_vars

(* ------------------ overlapping ticks and matches over ----------------- *)

\* the process starts while upstream reports m1 in play or over
InitOver ==
  /\ clock = StartClock
  /\ armed = TRUE
  /\ nticks = 0
  /\ nevents = 0
  /\ data \in [Tenants -> InitGuilds]
  /\ disk = data
  /\ lastPostedByMatch = [m \in Range(MatchIds) |-> 0]
  /\ feed \in InitFeeds
  /\ ticks = [t \in TickSlots |-> IdleTick]
  /\ posts = {}
  /\ notes = {}
  /\ ended = NoEnded
  /\ probe = NoProbe
  /\ reply = NoReply
  /\ boot = Booted(data, 0)

\* the program as it is, from these states
SpecOver == InitOver /\ [][Next]_vars

(* ------------------- ticking with nothing in its way ------------------ *)

\* guilds that track matches, with the category and gender filters the
\* commands can leave them with
TrackingGuilds ==
  { [DefaultGuild(sel, "custom") EXCEPT !.filters = f, !.gender_filters = gs] :
      sel \in {<<"m1">>, <<"m2">>},
      f \in {{"international", "domestic"}, {"first-class"}, AllCategories},
      gs \in {AllGenders, {"women"}} }

\* the process starts with guilds that track matches; upstream reports each
\* match in play or over and goes on doing so, no await fails and no command
\* runs (the budget of events is used up)
InitTracking ==
  /\ clock = StartClock
  /\ armed = TRUE
  /\ nticks = 0
  /\ nevents = MaxEvents
  /\ data \in {d \in [Tenants -> TrackingGuilds \cup {DefaultGuild(<<>>, "daily")}] :
                 d[TenantOrder[1]] \in TrackingGuilds}
  /\ disk = data
  /\ lastPostedByMatch = [m \in Range(MatchIds) |-> 0]
  /\ feed \in [Range(MatchIds) -> {"live", "won"}]
  /\ ticks = [t \in TickSlots |-> IdleTick]
  /\ posts = {}
  /\ notes = {}
  /\ ended = NoEnded
  /\ probe = NoProbe
  /\ reply = NoReply
  /\ boot = Booted(data, 0)

NextTracking ==
  \/ \E t \in TickSlots : StartTickAlone(t)
  \/ \E t \in TickSlots : TickStep(t)
  \/ \E d \in Steps : Advance(d)

\* the timer fires and every await of a tick resolves
SpecTracking == InitTracking /\ [][NextTracking]_vars


(* -------------------------- the process starts ------------------------- *)

\* the names under which the client announces that it is ready
ReadyEvents == {"ready", "clientReady"}

\* client.once('ready', onBoot); client.once('clientReady', onBoot): the module
\* is loaded, both listeners are registered and no timer is
InitBoot ==
  /\ clock = StartClock
  /\ armed = FALSE
  /\ nticks = 0
  /\ nevents = 0
  /\ data \in [Tenants -> InitGuilds]
  /\ disk = data
  /\ lastPostedByMatch = [m \in Range(MatchIds) |-> 0]
  /\ feed \in InitFeeds
  /\ ticks = [t \in TickSlots |-> IdleTick]
  /\ posts = {}
  /\ notes = {}
  /\ ended = NoEnded
  /\ probe = NoProbe
  /\ reply = NoReply
  /\ boot = [Booted(data, 0) EXCEPT !.listeners = ReadyEvents, !.timers = 0]

\* the client emits one of its ready events: the once-listener is removed and
\* onBoot runs up to await rest.put(...)
ReadyEvent(name) ==
  /\ name \in boot.listeners
  /\ boot' = [boot EXCEPT !.listeners = @ \ {name}, !.booting = @ + 1]
  /\ UNCHANGED <<clock, armed, nticks, nevents, data, disk, lastPostedByMatch, feed, ticks,
                 posts, notes, ended, probe, reply>>

\* await rest.put(...).catch(console.error) resolves, whether the commands were
\* registered or not, and onBoot goes on: setInterval(tick, 60*1000)
OnBootDone ==
  /\ boot.booting > 0
  /\ \E ok \in BOOLEAN :
       boot' = [boot EXCEPT !.booting = @ - 1, !.timers = @ + 1]
  /\ UNCHANGED <<clock, armed, nticks, nevents, data, disk, lastPostedByMatch, feed, ticks,
                 posts, notes, ended, probe, reply>>

\* a period of 60 s passes: every interval timer that is registered comes due
PeriodPasses ==
  /\ boot.timers > 0
  /\ boot.due = {}
  /\ nticks < MaxTicks
  /\ clock' = clock + TIMER_SECONDS
  /\ boot' = [boot EXCEPT !.due = 1..boot.timers]
  /\ UNCHANGED <<armed, nticks, nevents, data, disk, lastPostedByMatch, feed, ticks, posts,
                 notes, ended, probe, reply>>

\* the interval timer k fires: tick() is called and runs up to its first await
TimerFires(k, t) ==
  /\ k \in boot.due
  /\ nticks < MaxTicks
  /\ StartTickCore(t)
  /\ boot' = [boot EXCEPT !.due = @ \ {k}]
  /\ UNCHANGED armed

NextBoot ==
  \/ \E name \in ReadyEvents : ReadyEvent(name)
  \/ OnBootDone
  \/ PeriodPasses
  \/ \E k \in 1..2, t \in TickSlots : TimerFires(k, t)
  \/ \E t \in TickSlots : TickStep(t)

\* the process from the moment its module is loaded
SpecBoot == InitBoot /\ [][NextBoot]_vars

(* ------------------------ the daily time is set ------------------------ *)

\* what an administrator can give /cricket-daily-time: times of the day, four
\* digits that are no time of a day, and texts that are not four digits
DailyTimeInputs ==
  { <<"0","0","0","0">>, <<"0","6","0","0">>, <<"2","1","0","0">>, <<"2","3","5","9">>, <<"2","3","6","0">>, <<"2","4","0","0">>, <<"2","5","0","0">>, <<"9","9","9","9">>,
    <<"9","3","0">>, <<"2","1",":","0","0">> }

NextDailyTime ==
  \/ \E t \in TickSlots : StartTickAlone(t)
  \/ \E t \in TickSlots : TickStep(t)
  \/ \E g \in Tenants, hhmm \in DailyTimeInputs : CricketDailyTime(g, hhmm)
  \/ \E d \in Steps : Advance(d)

\* ticks that do not overlap, and one command that sets the daily time
SpecDailyTime == InitOver /\ [][NextDailyTime]_vars

(* ------------------------- pages of an endpoint ------------------------ *)

\* the rows of a page of upstream, and the step of the offset
PAGE_SIZE == 25

\* the most rows upstream has
MaxRows == 80

\* the page that upstream returns at an offset when it has total rows in all:
\* rows are numbered from 1
PageAt(total, offset) ==
  [i \in 1..(IF total - offset < PAGE_SIZE THEN total - offset ELSE PAGE_SIZE) |-> offset + i]

\* if (offset + 25 > total) break
LastPageStrict(offset, total) == offset + PAGE_SIZE > total

\* if (offset + 25 >= total) break
LastPage(offset, total) == offset + PAGE_SIZE >= total

\* fetchPaginated(baseUrl) is called: let all = [], offset = 0; upstream has
\* total rows and answers its request number failAt, if it gets that far,
\* with a status that is not "success"
NoPages(total, failAt) ==
  [total |-> total, failAt |-> failAt, all |-> <<>>, offset |-> 0, requests |-> 0,
   done |-> FALSE]

InitPaginate ==
  /\ clock = StartClock
  /\ armed = FALSE
  /\ nticks = 0
  /\ nevents = 0
  /\ data = [g \in Tenants |-> DefaultGuild(<<>>, "daily")]
  /\ disk = data
  /\ lastPostedByMatch = [m \in Range(MatchIds) |-> 0]
  /\ feed = [m \in Range(MatchIds) |-> "live"]
  /\ ticks = [t \in TickSlots |-> IdleTick]
  /\ posts = {}
  /\ notes = {}
  /\ ended = NoEnded
  /\ probe \in {NoPages(total, failAt) : total \in 0..MaxRows, failAt \in 0..4}
  /\ reply = NoReply
  /\ boot = Booted(data, 0)

\* one turn of the loop of fetchPaginated: await fetchJSON(`${baseUrl}&offset=${offset}`)
\* resolves, and the loop ends or goes on to the next offset
FetchPage ==
  /\ ~probe.done
  /\ probe' =
       IF probe.requests + 1 = probe.failAt
       THEN [probe EXCEPT !.requests = @ + 1, !.done = TRUE]
       ELSE LET p == [probe EXCEPT !.requests = @ + 1,
                                   !.all = @ \o PageAt(probe.total, probe.offset)]
            IN  IF LastPage(probe.offset, probe.total) THEN [p EXCEPT !.done = TRUE]
                ELSE [p EXCEPT !.offset = @ + PAGE_SIZE]
  /\ UNCHANGED <<boot, clock, armed, nticks, nevents, data, disk, lastPostedByMatch, feed, ticks,
                 posts, notes, ended, reply>>

NextPaginate == FetchPage

SpecPaginate == InitPaginate /\ [][NextPaginate]_vars

(* ------------------- interactions of ordinary members ------------------ *)

\* data has no entry for a guild: data[g] is undefined. tick goes through the
\* entries of data and so passes such a guild over
NoGuildRecord == [DefaultGuild(<<>>, "") EXCEPT !.channel_id = Absent]

\* ensureGuild(interaction): if (!data[g]) { data[g] = {...}; saveData(); }
ensureGuild(d, g, channelId) ==
  IF d[g] = NoGuildRecord
  THEN [d EXCEPT ![g] = [DefaultGuild(<<>>, "daily") EXCEPT !.channel_id = channelId]]
  ELSE d

\* const adminOnly = new Set([...])
adminOnly ==
  { <<"c","r","i","c","k","e","t","-","c","h","a","n","n","e","l">>, <<"c","r","i","c","k","e","t","-","f","i","l","t","e","r","s">>, <<"c","r","i","c","k","e","t","-","g","e","n","d","e","r">>, <<"c","r","i","c","k","e","t","-","t","e","a","m","s">>,
    <<"c","r","i","c","k","e","t","-","m","o","d","e">>, <<"c","r","i","c","k","e","t","-","d","a","i","l","y","-","t","i","m","e">>, <<"c","r","i","c","k","e","t","-","p","i","n","g","-","t","o","g","g","l","e">>, <<"c","r","i","c","k","e","t","-","p","i","n","g","-","r","o","l","e","s">>,
    <<"c","r","i","c","k","e","t","-","p","i","n","g","-","t","e","s","t">>, <<"c","r","i","c","k","e","t","-","s","e","l","e","c","t">>, <<"c","r","i","c","k","e","t","-","s","e","t","u","p">>, <<"s","e","t","-","m","a","t","c","h">>, <<"s","t","o","p">>,
    <<"s","t","a","r","t">>, <<"c","r","i","c","k","e","t","-","r","e","s","e","t">>, <<"c","r","i","c","k","e","t","-","s","e","t","t","i","n","g","s">> }

\* name.startsWith('cricket') || name === 'set-match' || name === 'stop' || name === 'start'
CommandEnsuresGuild(name) ==
  \/ MatchAt(name, <<"c","r","i","c","k","e","t">>, 1)
  \/ name \in {<<"s","e","t","-","m","a","t","c","h">>, <<"s","t","o","p">>, <<"s","t","a","r","t">>}

\* the buttons and the select menus of the settings panel
PanelButtons ==
  {"settings_toggle_system", "settings_toggle_mode", "settings_toggle_pings",
   "settings_set_filters", "settings_set_gender", "settings_refresh"}

PanelMenus == {"settings_select_categories", "settings_select_gender"}

\* the channels of a guild in which a member can type a command
Channels == {"channel", "channel2"}

\* an interaction of a member without Manage Server and without Administrator
\* ends with the answer that the permission is needed; d is data as the
\* handler leaves it
Denied(g, what, d) ==
  /\ data' = d
  /\ disk' = IF d # data THEN d ELSE disk
  /\ reply' = [NoReply EXCEPT !.g = g, !.cmd = what, !.kind = "denied"]
  /\ UNCHANGED <<boot, clock, armed, nticks, nevents, lastPostedByMatch, feed, ticks, posts, notes,
                 ended, probe>>

\* a command that only admins may use, from such a member
DeniedCommand(g, name, channelId) ==
  /\ name \in adminOnly
  /\ Denied(g, "command",
            IF CommandEnsuresGuild(name) THEN ensureGuild(data, g, channelId) ELSE data)

\* a button of the settings panel pressed by such a member
DeniedButton(g, id, channelId) ==
  /\ id \in PanelButtons
  /\ Denied(g, "button", ensureGuild(data, g, channelId))

\* a select menu of the settings panel used by such a member
DeniedSelect(g, id, channelId) ==
  /\ id \in PanelMenus
  /\ Denied(g, "select", ensureGuild(data, g, channelId))

\* the data file has records of some guilds and none of others; no tick runs
InitMember ==
  /\ clock = StartClock
  /\ armed = FALSE
  /\ nticks = 0
  /\ nevents = 0
  /\ data \in [Tenants -> InitGuildsWide \cup {NoGuildRecord}]
  /\ disk = data
  /\ lastPostedByMatch = [m \in Range(MatchIds) |-> 0]
  /\ feed = [m \in Range(MatchIds) |-> "live"]
  /\ ticks = [t \in TickSlots |-> IdleTick]
  /\ posts = {}
  /\ notes = {}
  /\ ended = NoEnded
  /\ probe = NoProbe
  /\ reply = NoReply
  /\ boot = Booted(data, 0)

NextMember ==
  \/ \E g \in Tenants, name \in adminOnly, c \in Channels : DeniedCommand(g, name, c)
  \/ \E g \in Tenants, id \in PanelButtons, c \in Channels : DeniedButton(g, id, c)
  \/ \E g \in Tenants, id \in PanelMenus, c \in Channels : DeniedSelect(g, id, c)

\* members who may not manage the server use the admin commands and the panel
SpecMember == InitMember /\ [][NextMember]_vars
(* ------------------------------ properties ---------------------------- *)

Branches == {"A", "B", "C"}

ScoreGap == POLL_SECONDS - GRACE_SECONDS

SummaryKinds == {"summary", "nomatches"}

Abs(x) == IF x < 0 THEN 0 - x ELSE x

\* C1: in one tick no guild has two different branches of A, B and C run for it
C1_BranchExclusive ==
  \A n1 \in notes, n2 \in notes :
    (/\ n1.kind \in Branches /\ n2.kind \in Branches
     /\ n1.g = n2.g /\ n1.serial = n2.serial) => n1.kind = n2.kind

\* C2: two score updates of one match are never sent by ticks whose times are
\* less than POLL_SECONDS - 5 apart
C2_ThrottleSafe ==
  \A p \in posts, q \in posts :
    (/\ p.kind = "score" /\ q.kind = "score" /\ p.mids = q.mids /\ p # q)
      => Abs(p.now - q.now) >= ScoreGap

\* C3: a due tick withholds the score update of a live match from a guild only
\* when that guild got an update of the match less than POLL_SECONDS - 5 ago
C3_GuildGetsUpdate ==
  \A n \in notes :
    n.kind = "throttled" =>
      \E p \in posts : /\ p.kind = "score" /\ p.g = n.g /\ p.mids = <<n.mid>>
                       /\ n.now - p.now < ScoreGap

\* C4: the step in which a summary that was due at T is through leaves T + 86400
\* as the guild's due time, and the file holds T + 86400 when it is written
C4_CadenceStable ==
  [][\A n \in notes' \ notes :
       n.kind = "advanced" =>
         /\ data'[n.g][SummaryKey(n.mid)] = n.val + DAY_SECONDS
         /\ (disk' # disk => disk'[n.g][SummaryKey(n.mid)] = n.val + DAY_SECONDS)]_vars

\* a summary went through on a tick later than its due time, and the file
\* holds the due time plus a day
C4_Witness ==
  \E n \in notes :
    /\ n.kind = "advanced" /\ n.now > n.val
    /\ disk[n.g][SummaryKey(n.mid)] = n.val + DAY_SECONDS
    /\ n.now + DAY_SECONDS # n.val + DAY_SECONDS

\* C5: two summaries of one guild from different ticks are at least a day apart
C5_OneSummaryPerDay ==
  \A p \in posts, q \in posts :
    (/\ p.kind \in SummaryKinds /\ q.kind \in SummaryKinds
     /\ p.g = q.g /\ p.serial # q.serial) => Abs(p.now - q.now) >= DAY_SECONDS

\* C6: a tick that starts right after another has ended, with nothing due and
\* nothing else happening, sends nothing and changes neither the
\* configuration, the file nor the throttle
C6_Idempotent ==
  [][(\/ \E t \in TickSlots : ticks'[t].quiet
      \/ (ended'.serial # ended.serial /\ ended'.quiet))
       => UNCHANGED <<data, disk, lastPostedByMatch, posts>>]_vars

\* the second of two ticks in succession has ended, it found nothing due for
\* the guilds it went through, and the first had sent or written something
C6_Witness ==
  /\ ended.quiet /\ ended.serial = 2 /\ ended.after = "busy"
  /\ ended.visited = Tenants /\ posts # {}

\* C7: a selected match that upstream reports as "Match Tied" is never up for
\* a score update: branch A takes it as finished
C7_TiedIsFinal ==
  \A t \in TickSlots :
    ticks[t].pc = "A_send" =>
      MatchRecord(ticks[t].matches[ticks[t].mi]).status # StatusTable.tied.status

\* C8: no exception leaves tick, a tick in flight has gone through every guild
\* before the one it is at, and a tick that has ended went through all guilds
C8_Isolation ==
  /\ \A t \in TickSlots :
       /\ ticks[t].pc # "escaped"
       /\ ticks[t].pc \notin {"idle", "escaped"} =>
            /\ ticks[t].visited = {TenantOrder[i] : i \in 1..ticks[t].idx}
            /\ ticks[t].threw \subseteq ticks[t].visited \ {GuildOf(ticks[t])}
  /\ ended.serial > 0 => ended.visited = Tenants

\* a tick has ended in which the first guild threw and the second got a post
C8_Witness ==
  /\ ended.serial > 0 /\ TenantOrder[1] \in ended.threw
  /\ \E p \in posts : p.g = TenantOrder[2] /\ p.serial = ended.serial

\* C9: a tick in which a fetch failed for a guild sends nothing to that guild
\* and does not move its summary on
C9_SilentRetry ==
  [][\A t \in TickSlots :
       ticks[t].fetchFailed =>
         /\ \A p \in posts' \ posts :
              ~(p.g = GuildOf(ticks[t]) /\ p.serial = ticks[t].serial)
         /\ \A n \in notes' \ notes :
              ~(n.kind = "advanced" /\ n.g = GuildOf(ticks[t])
                /\ n.serial = ticks[t].serial)]_vars

\* C10: at most one tick is in flight
C10_OneInFlight == Cardinality(InFlight) <= 1

\* C11: when a tick stops tracking a match it found finished, every other
\* match id of the guild's selection, also one an admin added while the tick
\* was suspended, stays in the selection
C11_NoLostSelection ==
  [][\A t \in TickSlots :
       (ticks[t].pc \in {"A_sc", "A_final"} /\ ticks'[t].pc # ticks[t].pc) =>
         \A mid \in Range(MatchIds) :
           (/\ Has(data[GuildOf(ticks[t])].selected_match_ids, mid)
            /\ mid # CurrentMid(ticks[t]))
             => Has(data'[GuildOf(ticks[t])].selected_match_ids, mid)]_vars

\* the time of day, in seconds, that a daily_time stands for
SecondsOfDay(hhmm) ==
  parseInt(SubSeq(hhmm, 1, 2)) * 3600 + parseInt(SubSeq(hhmm, 3, Len(hhmm))) * 60

SummaryKeys == {"fallback_summary", "next_summary"}

\* C12: a due time of the summaries that is set falls on the time of day the
\* guild's daily_time says, whatever ticks were in flight when an admin
\* changed the daily_time
C12_NewTimeTakesEffect ==
  \A g \in Tenants, key \in SummaryKeys :
    data[g][key] # 0 => data[g][key] % DAY_SECONDS = SecondsOfDay(data[g].daily_time)

\* C12, the command alone: the step that changes a guild's daily_time leaves
\* both due times of the summaries unset
C12_ChangeClears ==
  [][\A g \in Tenants :
       data'[g].daily_time # data[g].daily_time =>
         \A key \in SummaryKeys : data'[g][key] = 0]_vars

\* C13: no step lowers a due time of a guild that is set, unless the step
\* clears it
C13_DueMonotonic ==
  [][\A g \in Tenants, key \in SummaryKeys \cup {"next_due"} :
       (data[g][key] # 0 /\ data'[g][key] < data[g][key]) => data'[g][key] = 0]_vars

\* C14: a match record whose status has a word of the finished vocabulary is
\* classified as finished and as not live, whatever else the status says and
\* whatever its started flag
C14_FinishedNotLive == probe.done => (probe.finished /\ ~probe.live)

\* C14, the first half: such a record is classified as finished
C14_FinishedHolds == probe.done => probe.finished

\* the guilds tick t had reached before a step
VisitedBefore(serial) ==
  UNION {ticks[t].visited : t \in {u \in TickSlots : ticks[u].pc # "idle" /\ ticks[u].serial = serial}}

\* the guilds a step makes the loop of some tick reach while they are paused
\* or have no channel
ReachedOff ==
  LET inFlight == UNION {ticks'[t].visited \ VisitedBefore(ticks'[t].serial) :
                           t \in {u \in TickSlots : ticks'[u].pc # "idle"}}
      over     == IF ended'.serial # ended.serial
                  THEN ended'.visited \ VisitedBefore(ended'.serial) ELSE {}
  IN  {g \in inFlight \cup over : data[g].is_paused \/ data[g].channel_id = Absent}

\* C15: a guild that is paused or has no channel when the loop of a tick
\* reaches it is passed over: the tick does not stop at it to fetch, nothing
\* is sent to it, no branch runs for it, its configuration stays as it is in
\* memory, and the throttle changes only with an update sent to another guild
C15_SkippedEntirely ==
  [][\A g \in ReachedOff :
       /\ \A t \in TickSlots : ticks'[t].pc # "idle" => GuildOf(ticks'[t]) # g
       /\ \A p \in posts' \ posts : p.g # g
       /\ \A n \in notes' \ notes : n.g # g
       /\ data'[g] = data[g]
       /\ lastPostedByMatch' # lastPostedByMatch =>
            \E p \in posts' \ posts : p.kind = "score" /\ p.g # g]_vars

\* a tick has ended that went past a guild which has no channel and tracks a
\* match, nothing was sent to that guild, and the tick sent to the other guild
C15_Witness ==
  /\ ended.serial > 0
  /\ \E g \in ended.visited :
       /\ data[g].channel_id = Absent /\ data[g].selected_match_ids # <<>>
       /\ \A p \in posts : p.g # g
       /\ \E p \in posts : p.g # g /\ p.serial = ended.serial

\* the same for a guild that an admin has paused
C15_WitnessPaused ==
  /\ ended.serial > 0
  /\ \E g \in ended.visited :
       /\ data[g].is_paused /\ data[g].selected_match_ids # <<>>
       /\ \A p \in posts : p.g # g
       /\ \E p \in posts : p.g # g /\ p.serial = ended.serial

\* C16: when branch A leaves the scorecard of a finished match behind, fetched
\* and sent or not, the match is out of the guild's selection in memory; if
\* saveData did not throw it is out of the file too and the tick is at the
\* send of the notice for that match, else the file is as it was and the
\* exception went to the catch of the guild; and the step that ends that
\* send, sent or not, does not put the match back
C16_FinishedStaysRemoved ==
  [][\A t \in TickSlots :
       LET g   == GuildOf(ticks[t])
           mid == CurrentMid(ticks[t])
       IN  /\ (ticks[t].pc \in {"A_sc", "A_final"} /\ ticks'[t].pc \notin {ticks[t].pc, "A_final"}) =>
                /\ ~Has(data'[g].selected_match_ids, mid)
                /\ \/ /\ ~Has(disk'[g].selected_match_ids, mid)
                      /\ ticks'[t].pc = "A_stop" /\ ticks'[t].serial = ticks[t].serial
                      /\ CurrentMid(ticks'[t]) = mid /\ GuildOf(ticks'[t]) = g
                   \/ /\ disk' = disk
                      /\ g \in (IF ticks'[t].pc = "idle" THEN ended'.threw ELSE ticks'[t].threw)
           /\ (ticks[t].pc = "A_stop" /\ ticks'[t] # Disturbed[t]
                 /\ ~Has(data[g].selected_match_ids, mid)) =>
                (~Has(data'[g].selected_match_ids, mid) /\ ~Has(disk'[g].selected_match_ids, mid))]_vars

\* the notice of a finished match was sent in a tick that sent no final
\* scorecard for it, and the match is out of the selection in the file
C16_Witness ==
  \E p \in posts :
    /\ p.kind = "stopped"
    /\ \A q \in posts : ~(q.kind = "final" /\ q.g = p.g /\ q.serial = p.serial)
    /\ ~Has(disk[p.g].selected_match_ids, p.mids[1])
    /\ nevents = 1

\* the fields of a guild that the admin commands write and tick only reads
AdminFields ==
  {"channel_id", "mode", "filters", "gender_filters", "team_filters", "daily_time",
   "ping_enabled", "role_ids", "is_paused"}

\* a step of a tick: one starts, one goes on from an await, or one ends
TickActs ==
  \/ nticks' # nticks
  \/ ended'.serial # ended.serial
  \/ \E t \in TickSlots : ticks'[t] # Disturbed[t]

\* C17: a step of a tick leaves the admin's fields of every guild as they are
\* in memory, and when it writes the file the file has them as they are in
\* memory, so what an admin wrote while the tick was suspended stays
C17_TickOwnsItsFields ==
  [][TickActs =>
       \A g \in Tenants, f \in AdminFields :
         /\ data'[g][f] = data[g][f]
         /\ disk' # disk => disk'[g][f] = data[g][f]]_vars

\* a tick has ended that wrote a guild's next_summary after an admin had
\* changed the guild's daily_time while it was suspended in the summary (the
\* due time is set and not on the grid of the new time), and memory and file
\* have the admin's daily_time
C17_Witness ==
  /\ ended.serial > 0 /\ InFlight = {}
  /\ \E g \in Tenants :
       /\ data[g].daily_time # DAILY_SUMMARY_HHMM
       /\ data[g].next_summary # 0
       /\ data[g].next_summary % DAY_SECONDS # SecondsOfDay(data[g].daily_time)
       /\ disk[g] = data[g]

\* C18: in memory and in the file the categories and the genders of every
\* guild are sets with at least one member, all of them known values
C18_FiltersNeverEmpty ==
  \A g \in Tenants, d \in {data, disk} :
    /\ d[g].filters # {} /\ d[g].filters \subseteq AllCategories
    /\ d[g].gender_filters # {} /\ d[g].gender_filters \subseteq AllGenders

\* one command has run, and it has left the guild that had the defaults with
\* first-class as its only category, in memory and in the file
C18_Witness ==
  /\ nevents = 1
  /\ data[TenantOrder[2]].filters = {"first-class"}
  /\ disk[TenantOrder[2]].filters = {"first-class"}

\* the matches upstream reports now that pass a guild's filters when a
\* filter that is absent lets every value through
OpenList(g) ==
  MidsOf(SelectSeq(currentMatches, LAMBDA e :
    /\ categoryAllowed(MatchRecord(e), OrElseSet(data[g].filters, AllCategories))
    /\ genderAllowed(MatchRecord(e), OrElseSet(data[g].gender_filters, AllGenders))
    /\ teamAllowed(MatchRecord(e), OrElseSeq(data[g].team_filters, <<>>))))

\* C19: /cricket-list, when its fetch went through, lists the matches that
\* pass the guild's filters with an absent filter taken as all known values
C19_ListFailsOpen ==
  (reply.cmd = "cricket-list" /\ ~reply.upstreamFailed) => reply.mids = OpenList(reply.g)

\* C20: a lookup whose upstream fetch failed has ended with a reply that
\* says so
C20_FailureReported == reply.upstreamFailed => reply.kind = "failed"

\* C20, the configuration: a lookup whose upstream fetch failed leaves the
\* configuration in memory and in the file as it was
C20_FailedLookupWritesNothing ==
  [][(reply'.upstreamFailed /\ nevents' = nevents) => (data' = data /\ disk' = disk)]_vars

\* a step takes tick t through the gate of a branch: to the fetch of branch A
\* or to the first fetch of a summary
Fires(t) ==
  /\ ticks'[t].pc \in {"A_fetch", "S_cur"}
  /\ ticks[t].pc # ticks'[t].pc

\* the due time of the branch tick tk is in
BranchKey(tk) == IF tk.pc = "A_fetch" THEN "next_due" ELSE SummaryKey(tk.br)

\* the process was started again and nothing but ticks has happened since
SinceRestart == boot.serial > 0 /\ nevents' = boot.events

\* C21: after a restart between ticks, with nothing but ticks since, a branch
\* of a guild fires only in a tick whose time has reached the due time the
\* file held for it at the restart; and when the first tick after the restart
\* gets the channel of a guild whose due time in the file had passed (for
\* branch A also one that was unset), the branch of that guild fires
C21_RestartKeepsDue ==
  [][SinceRestart =>
       \A t \in TickSlots :
         /\ Fires(t) =>
              ticks'[t].now >= boot.loaded[GuildOf(ticks'[t])][BranchKey(ticks'[t])]
         /\ (/\ ticks[t].pc = "chan" /\ ticks'[t] # Disturbed[t]
             /\ ticks[t].serial = boot.serial + 1) =>
              LET g   == GuildOf(ticks[t])
                  due == DueOf(boot.loaded, g)
                  inA == boot.loaded[g].mode = "custom"
                           /\ boot.loaded[g].selected_match_ids # <<>>
              IN  ((inA \/ due # 0) /\ ticks[t].now >= due) =>
                    (Fires(t) /\ GuildOf(ticks'[t]) = g)]_vars

\* the first tick after a restart is at the first fetch of a summary whose due
\* time, written to the file by a tick of the process before, had passed
C21_Witness ==
  /\ boot.serial > 0 /\ nevents = boot.events
  /\ \E t \in TickSlots :
       /\ ticks[t].pc = "S_cur" /\ ticks[t].serial = boot.serial + 1
       /\ ticks[t].nextRun = boot.loaded[GuildOf(ticks[t])][SummaryKey(ticks[t].br)]
       /\ ticks[t].nextRun = MissedDue + DAY_SECONDS

\* the first tick after a restart has ended without a summary for a guild
\* whose due time in the file was still to come, and the file holds that time
C21_WitnessNotDue ==
  /\ boot.serial > 0 /\ nevents = boot.events
  /\ ended.serial = boot.serial + 1 /\ InFlight = {}
  /\ \E g \in Tenants :
       /\ boot.loaded[g].mode = "daily" /\ boot.loaded[g].next_summary > clock
       /\ disk[g].next_summary = boot.loaded[g].next_summary
       /\ \A p \in posts : p.g = g => p.serial # ended.serial

\* a name or a short name of a participant has the name of a region of India
ParticipantCarriesRegion(teamInfo) ==
  \E k \in 1..Len(teamInfo), r \in 1..Len(states) :
    \/ includes(norm(teamInfo[k].name), states[r])
    \/ includes(norm(teamInfo[k].shortname), states[r])

\* C22: a record with the name of a region of India in its participant list
\* is classified as domestic or first-class, whatever its series name and its
\* match type
C22_RegionalFirst ==
  (probe.done /\ ParticipantCarriesRegion(probe.teamInfo))
    => probe.category \in {"domestic", "first-class"}

\* a match of two teams with regions in their names in a series of a
\* franchise league, with the match type of internationals, was classified
\* as domestic
C22_Witness ==
  /\ probe.done /\ ParticipantCarriesRegion(probe.teamInfo)
  /\ probe.series = <<"I","n","d","i","a","n"," ","P","r","e","m","i","e","r"," ","L","e","a","g","u","e"," ","2","0","2","5">> /\ probe.matchType = <<"T","2","0","I">>
  /\ probe.category = "domestic"

\* the series name has a fragment of a franchise league
FranchiseSeries(series) ==
  series # <<>> /\ \E k \in 1..Len(FRANCHISE_MAP) : includes(norm(series), FRANCHISE_MAP[k])

\* neither the participants' names nor the series name have a regional signal
NoRegionalSignal(m) ==
  /\ \A r \in 1..Len(states) : ~includes(matchTeamNames(m), states[r])
  /\ \A k \in 1..Len(INDIAN_DOMESTIC_SERIES) :
       ~includes(norm(m.series), INDIAN_DOMESTIC_SERIES[k])

\* C23: a record whose series name has a fragment of a franchise league and
\* that has no regional signal is classified as franchise, whatever its match
\* type and whatever else its series name says
C23_FranchiseSeries ==
  (probe.done /\ FranchiseSeries(probe.series) /\ NoRegionalSignal(probe))
    => probe.category = "franchise"

\* a match of a franchise series that also names a first-class format and
\* internationals, with the match type of a test, was classified as franchise
C23_Witness ==
  /\ probe.done /\ NoRegionalSignal(probe)
  /\ probe.series = <<"T","h","e"," ","H","u","n","d","r","e","d"," ","F","o","u","r","-","D","a","y"," ","I","n","t","e","r","n","a","t","i","o","n","a","l">> /\ probe.matchType = <<"t","e","s","t">>
  /\ probe.category = "franchise"

\* guild g started the day in daily mode with the default filters and with a
\* summary that the first tick finds due
DefaultDailyDue(g) ==
  /\ boot.loaded[g] = [DefaultGuild(<<>>, "daily") EXCEPT
                         !.next_summary = boot.loaded[g].next_summary]
  /\ boot.loaded[g].next_summary # 0 /\ boot.loaded[g].next_summary <= ScenarioClock

\* what the first tick has sent to guild g: the kind of each message and the
\* matches in it
SentInFirstTick(g) ==
  {<<p.kind, p.mids>> : p \in {q \in posts : q.g = g /\ q.serial = 1}}

\* C24: on a day with an international match (m1) and a regional first-class
\* match (m2), with no failure and no command and while the clock stays in the
\* minute of the tick, the first tick sends a guild in daily mode with the
\* default filters one message with the one embed of m1, after it the list of
\* tomorrow's fixtures, and nothing else
C24_ScenarioDaily ==
  \A g \in Tenants :
    (nevents = 0 /\ clock = ScenarioClock /\ DefaultDailyDue(g)) =>
      /\ SentInFirstTick(g) \subseteq {<<"summary", <<"m1">> >>, <<"tomorrow_none", <<>> >>}
      /\ <<"tomorrow_none", <<>> >> \in SentInFirstTick(g)
           => <<"summary", <<"m1">> >> \in SentInFirstTick(g)
      /\ (\E n \in notes : n.kind = "advanced" /\ n.g = g /\ n.serial = 1)
           => <<"tomorrow_none", <<>> >> \in SentInFirstTick(g)

\* the first tick is over, nothing failed, and a guild in daily mode with the
\* default filters got the embed of m1 and the list of tomorrow's fixtures
C24_Witness ==
  /\ nevents = 0 /\ clock = ScenarioClock /\ ended.serial = 1 /\ InFlight = {}
  /\ \E g \in Tenants :
       /\ DefaultDailyDue(g) /\ boot.loaded[g].next_summary = ScenarioClock
       /\ SentInFirstTick(g) = {<<"summary", <<"m1">> >>, <<"tomorrow_none", <<>> >>}
       /\ Classified[MatchRecord(currentMatches[2])].category = "first-class"
       /\ isTodayOrLive(MatchRecord(currentMatches[2]))

\* C25: as long as no command has run (so that no match was added to a
\* selection a second time) and nothing has failed, a guild has got at most
\* one final scorecard and at most one notice that tracking stopped for a match
C25_FinishedOnce ==
  \A p \in posts, q \in posts :
    (/\ nevents = 0 /\ p.kind \in {"final", "stopped"} /\ q.kind = p.kind
     /\ p.g = q.g /\ p.mids = q.mids) => p = q

\* what upstream reports of match mid now
ReportedNow(mid) == MatchRecord([id |-> mid, st |-> feed[mid]])

\* match mid passes the filters of guild g
PassesFilters(g, mid) ==
  /\ categoryAllowed(ReportedNow(mid), data[g].filters)
  /\ genderAllowed(ReportedNow(mid), data[g].gender_filters)
  /\ teamAllowed(ReportedNow(mid), data[g].team_filters)

BranchAPcs == {"A_fetch", "A_sc", "A_final", "A_stop", "A_send"}

\* C26: when a tick leaves branch A for a guild, with every await resolved and
\* nothing else happening, no match that upstream reports as finished is in
\* the guild's selection any more, whatever the filters of the guild; so each
\* pass of branch A untracks the finished matches
C26_FinishedUntracked ==
  [][\A t \in TickSlots :
       (ticks[t].pc \in BranchAPcs /\ ticks'[t].pc \notin BranchAPcs) =>
         \A mid \in Range(MatchIds) :
           Classified[ReportedNow(mid)].finished
             => ~Has(data'[GuildOf(ticks[t])].selected_match_ids, mid)]_vars

\* C26, the matches in question: no step takes a match that does not pass the
\* guild's filters out of the guild's selection, so with ticks alone it stays
\* there for good
C26_FilteredStaysTracked ==
  [][\A g \in Tenants, mid \in Range(MatchIds) :
       (Has(data[g].selected_match_ids, mid) /\ ~PassesFilters(g, mid))
         => Has(data'[g].selected_match_ids, mid)]_vars

\* C26, the other matches: a pass of branch A leaves no finished match that
\* passes the guild's filters in the selection
C26_RelevantUntracked ==
  [][\A t \in TickSlots :
       (ticks[t].pc \in BranchAPcs /\ ticks'[t].pc \notin BranchAPcs) =>
         \A mid \in Range(MatchIds) :
           (Classified[ReportedNow(mid)].finished /\ PassesFilters(GuildOf(ticks[t]), mid))
             => ~Has(data'[GuildOf(ticks[t])].selected_match_ids, mid)]_vars

\* the guilds whose turn ended in the catch of the tick that slot t holds
\* before a step
ThrewAfter(t) == IF ticks'[t].pc = "idle" THEN ended'.threw ELSE ticks'[t].threw

\* one of the matches of a fetched list is selected and relevant for tick tk,
\* not finished, and live
AnyLiveIn(list, tk) ==
  \E i \in 1..Len(list) :
    /\ SelectedAndRelevant(tk, MatchRecord(list[i]))
    /\ ~Classified[MatchRecord(list[i])].finished
    /\ Classified[MatchRecord(list[i])].live

\* the lists a pass of branch A can have fetched when a step ends the pass
FetchedLists(t) ==
  IF ticks[t].pc = "A_fetch"
  THEN {currentMatches} \cup (IF nevents' > nevents THEN {<<>>} ELSE {})
  ELSE {ticks[t].matches}

SendPcs == {"A_send", "A_stop", "S_none", "S_batch", "T_send"}

\* the due time of the branch a tick is in
BranchDue(d, tk) ==
  IF tk.pc \in BranchAPcs THEN d[GuildOf(tk)].next_due ELSE d[GuildOf(tk)][SummaryKey(tk.br)]

\* the tick in slot t awaited a channel.send and the step delivers nothing
SendFails(t) == ticks[t].pc \in SendPcs /\ ticks'[t] # ticks[t] /\ posts' = posts

\* C28: a guild whose daily summary is due when the process starts does not
\* get the matches of a summary a second time from a tick that starts less
\* than a day after the tick that sent them first
C28_NotSentAgain ==
  \A p \in posts, q \in posts :
    (/\ p.g = q.g /\ p.kind = "summary" /\ q.kind = "summary" /\ p.mids = q.mids
     /\ DefaultDailyDue(p.g) /\ boot.loaded[p.g].next_summary = ScenarioClock
     /\ p.serial < q.serial)
      => q.now - p.now >= DAY_SECONDS

\* when a channel.send of a tick fails, the tick either stays with the guild
\* or has moved the due time of its branch on, in memory and in the file
C28_FailedPostGoesOn ==
  [][\A t \in TickSlots :
       SendFails(t) =>
         \/ ticks'[t].pc # "idle" /\ ticks'[t].idx = ticks[t].idx
         \/ /\ BranchDue(data', ticks[t]) > BranchDue(data, ticks[t])
            /\ BranchDue(disk', ticks[t]) = BranchDue(data', ticks[t])]_vars

\* a failed channel.send ends the guild's turn with the due time of its
\* branch where it was
C28_FailedPostEndsTurn ==
  [][\A t \in TickSlots :
       SendFails(t) =>
         /\ GuildOf(ticks[t]) \in ThrewAfter(t)
         /\ ticks'[t].pc = "idle" \/ ticks'[t].idx > ticks[t].idx
         /\ BranchDue(data', ticks[t]) = BranchDue(data, ticks[t])]_vars

\* with no failing await and no command the summary is not sent again
C28_SentOnceWhenNothingFails == nevents = 0 => C28_NotSentAgain

\* C29: whichever of the ready events the client emits, at most one interval
\* timer is registered, and no more ticks have been started than periods of
\* TIMER_SECONDS have passed since the module was loaded
C29_SingleTimer ==
  /\ boot.timers <= 1
  /\ nticks * TIMER_SECONDS <= clock - StartClock

\* every ready event that was emitted has called onBoot once, and every call
\* of onBoot that is over has registered one interval timer
C29_TimerPerReadyEvent ==
  boot.timers + boot.booting = Cardinality(ReadyEvents \ boot.listeners)

\* as long as one ready event only was emitted, one timer at most is
\* registered and one tick at most is started in a period
C29_SingleTimerOfOneEvent ==
  Cardinality(ReadyEvents \ boot.listeners) <= 1 => C29_SingleTimer

\* two ticks are in flight that were started in the same period
C29_TwoTicksInAPeriod ==
  \E t \in TickSlots, u \in TickSlots :
    t # u /\ ticks[t].pc # "idle" /\ ticks[u].pc # "idle" /\ ticks[t].now = ticks[u].now

\* the kinds of post that the daily branches send
DailyBranchKinds == SummaryKinds \cup {"tomorrow", "tomorrow_none"}

\* the daily time a tick has for the guild whose turn it is: the copy it made
\* when it entered the guild's branches, which it does on leaving "chan"
DailyTimeOf(t) ==
  IF ticks[t].pc = "chan"
  THEN OrElseSeq(data[GuildOf(ticks[t])].daily_time, DAILY_SUMMARY_HHMM)
  ELSE ticks[t].dailyHHMM

\* in this step the tick in slot t evaluates the daily branch n.kind for guild
\* n.g and finds its due time unset
InitialisesHere(t, n) ==
  /\ n \in notes' \ notes /\ n.kind \in {"B", "C"}
  /\ ticks[t].pc # "idle" /\ n.serial = ticks[t].serial
  /\ data[n.g][SummaryKey(n.kind)] = 0

\* C30: when a tick evaluates branch B or C for a guild whose due time is
\* unset, the due time becomes the first time after the wall clock that falls
\* on the guild's daily time, in the file too unless saveData throws; the
\* guild's turn ends there, with no fetch, and the tick has sent the guild no
\* post of a daily branch
C30_InitialisesWithoutFiring ==
  [][\A t \in TickSlots : \A n \in notes' \ notes :
       InitialisesHere(t, n) =>
         LET due == data'[n.g][SummaryKey(n.kind)]
         IN  /\ due > clock /\ due <= clock + DAY_SECONDS
             /\ due % DAY_SECONDS = SecondsOfDay(DailyTimeOf(t))
             /\ n.g \in ThrewAfter(t) \/ disk'[n.g][SummaryKey(n.kind)] = due
             /\ ticks'[t].pc = "idle" \/ ticks'[t].idx > ticks[t].idx
             /\ \A p \in posts' : (p.g = n.g /\ p.serial = n.serial) =>
                                    p.kind \notin DailyBranchKinds]_vars

\* a tick at the guild's daily time to the second found the due time of daily
\* mode unset and the file has the same time of the next day; the tick is over
\* and the guild got nothing
C30_Witness ==
  /\ ended.serial = 1 /\ InFlight = {} /\ clock = ScenarioClock
  /\ \E g \in Tenants :
       /\ boot.loaded[g] = DefaultGuild(<<>>, "daily")
       /\ \E n \in notes : n.g = g /\ n.kind = "C" /\ n.now = ScenarioClock
       /\ SecondsOfDay(data[g].daily_time) = ScenarioClock % DAY_SECONDS
       /\ disk[g].next_summary = ScenarioClock + DAY_SECONDS
       /\ \A p \in posts : p.g # g

\* a tick found the due time of branch B unset after its branch A had sent
\* the guild the final scorecard of the last selected match
C30_WitnessAfterBranchA ==
  \E g \in Tenants :
    /\ boot.loaded[g].fallback_summary = 0 /\ disk[g].fallback_summary > clock
    /\ \E n \in notes : n.g = g /\ n.kind = "B" /\ n.serial = 1
    /\ \E p \in posts : p.g = g /\ p.serial = 1 /\ p.kind = "final"

\* the same with the daily time the guild has when the branch is evaluated
C30_CurrentDailyTime ==
  [][\A t \in TickSlots : \A n \in notes' \ notes :
       InitialisesHere(t, n) =>
         data'[n.g][SummaryKey(n.kind)] % DAY_SECONDS
           = SecondsOfDay(OrElseSeq(data[n.g].daily_time, DAILY_SUMMARY_HHMM))]_vars

\* C31: the due time that branch B or C initialises is after the wall clock
\* and at most DAY_SECONDS after it
C31_NextOccurrenceWithinADay ==
  [][\A t \in TickSlots : \A n \in notes' \ notes :
       InitialisesHere(t, n) =>
         /\ data'[n.g][SummaryKey(n.kind)] > clock
         /\ data'[n.g][SummaryKey(n.kind)] <= clock + DAY_SECONDS]_vars

\* the due time that branch B or C initialises is after the wall clock
C31_AfterNow ==
  [][\A t \in TickSlots : \A n \in notes' \ notes :
       InitialisesHere(t, n) => data'[n.g][SummaryKey(n.kind)] > clock]_vars

\* four digits of which the first two are below 24 and the last two below 60
TimeOfDay(hhmm) ==
  /\ FourDigits(hhmm)
  /\ parseInt(SubSeq(hhmm, 1, 2)) < 24 /\ parseInt(SubSeq(hhmm, 3, 4)) < 60

\* from a time of the day the due time is initialised to at most DAY_SECONDS
\* after the wall clock
C31_TimeOfDayWithinADay ==
  [][\A t \in TickSlots : \A n \in notes' \ notes :
       (InitialisesHere(t, n) /\ TimeOfDay(DailyTimeOf(t))) =>
         data'[n.g][SummaryKey(n.kind)] <= clock + DAY_SECONDS]_vars

\* the daily time of every guild is of four digits
C31_StoredFourDigits == \A g \in Tenants : FourDigits(data[g].daily_time)

\* the filter of the daily branch that tick tk is in
SummaryRelevant(tk, e) ==
  IF tk.br = "B" THEN FallbackRelevant(tk, MatchRecord(e)) ELSE DailyRelevant(tk, MatchRecord(e))

\* what the fetch of today's matches can have returned to the tick in slot t
\* in a step
TodaysLists(t) == {getTodayMatches} \cup (IF nevents' > nevents THEN {<<>>} ELSE {})

\* C32: when a daily branch has fetched both lists, the matches it goes on
\* with have each identity once; each is a record of the current matches, or a
\* record of today's matches whose identity is not among the current ones; and
\* every such record that passes the filter of the branch is among them
C32_MergedByIdentity ==
  [][\A t \in TickSlots :
       (ticks[t].pc = "S_today" /\ ticks'[t].pc \in {"S_none", "S_batch"}) =>
         \E todays \in TodaysLists(t) :
           LET ms  == ticks'[t].matches
               cur == ticks[t].cur
               OnlyToday(e) == /\ e \in Range(todays)
                               /\ \A c \in Range(cur) : c.id # e.id
           IN  /\ \A i \in 1..Len(ms), j \in 1..Len(ms) : ms[i].id = ms[j].id => i = j
               /\ \A e \in Range(ms) : e \in Range(cur) \/ OnlyToday(e)
               /\ \A e \in Range(cur) \cup {x \in Range(todays) : OnlyToday(x)} :
                    SummaryRelevant(ticks[t], e) => e \in Range(ms)]_vars

\* nothing failed, m1 is dated today and is in both lists, and the tick goes
\* on with one record of m1, the one of the current matches
C32_Witness ==
  /\ nevents = 0 /\ clock = ScenarioClock
  /\ \E t \in TickSlots :
       /\ ticks[t].pc = "S_batch" /\ ticks[t].br = "C"
       /\ \E i \in 1..Len(getTodayMatches) : getTodayMatches[i].id = "m1"
       /\ \E i \in 1..Len(ticks[t].matches) :
            ticks[t].matches[i].id = "m1" /\ ticks[t].matches[i].src = "current"
       /\ \A i \in 1..Len(ticks[t].matches) : ticks[t].matches[i].src # "matches"

\* the records a daily branch has after merging the list todays into the
\* current matches the tick in slot t holds
MergedRecords(t, todays) ==
  Range(ticks[t].cur)
    \cup {x \in Range(todays) : \A c \in Range(ticks[t].cur) : c.id # x.id}

\* international, or domestic or first-class and of the regions of India
FallbackCategories(m) ==
  \/ Classified[m].category = "international"
  \/ Classified[m].category \in {"domestic", "first-class"} /\ Classified[m].indianDomestic

\* the gender and team filters the tick has for the guild, and today or live
PassesGenderTeamToday(tk, m) ==
  genderAllowed(m, tk.genders) /\ teamAllowed(m, tk.teams) /\ isTodayOrLive(m)

C33_WitnessDaily ==
  \E t \in TickSlots :
    /\ ticks[t].pc = "S_batch" /\ ticks[t].br = "C"
    /\ "first-class" \notin ticks[t].filters
    /\ Classified[MatchRecord(currentMatches[2])].category = "first-class"
    /\ Classified[MatchRecord(currentMatches[2])].indianDomestic
    /\ Classified[MatchRecord(currentMatches[2])].live
    /\ \A i \in 1..Len(ticks[t].matches) : ticks[t].matches[i].id # "m2"

\* branch B goes on with an international match for a guild whose category
\* filters do not have international
C33_WitnessFiltersSet ==
  \E t \in TickSlots :
    /\ ticks[t].pc = "S_batch" /\ ticks[t].br = "B"
    /\ "international" \notin ticks[t].filters
    /\ \E i \in 1..Len(ticks[t].matches) :
         Classified[MatchRecord(ticks[t].matches[i])].category = "international"

\* the posts of a set that the tick with a serial number sent to guild g
PostsOf(ps, g, serial) == {p \in ps : p.g = g /\ p.serial = serial}

\* the posts with the list of tomorrow's fixtures among those of a set
TomorrowPosts(ps) == {p \in ps : p.kind \in {"tomorrow", "tomorrow_none"}}

\* the tick with a serial number has noted that it moved a due time of guild
\* g on
AdvancedIn(ns, g, serial) ==
  \E n \in ns : n.kind = "advanced" /\ n.g = g /\ n.serial = serial

\* C34: a tick sends a guild the messages of a summary (or the message that
\* there are no matches) only before the list of tomorrow's fixtures, sends
\* that list only after a message of the summary and before it moves the due
\* time on, and moves the due time on only when it has sent the list once: a
\* list of international fixtures or the message that there are none
C34_SummaryOrder ==
  [][\A g \in Tenants, s \in 1..(MaxTicks + 1) :
       LET before == PostsOf(posts, g, s)
           after  == PostsOf(posts', g, s)
           new    == after \ before
       IN  /\ (\E p \in new : p.kind \in SummaryKinds) =>
                TomorrowPosts(before) = {} /\ ~AdvancedIn(notes', g, s)
           /\ (TomorrowPosts(new) # {}) =>
                /\ \E p \in before : p.kind \in SummaryKinds
                /\ TomorrowPosts(before) = {}
                /\ ~AdvancedIn(notes, g, s)
                /\ \A p \in TomorrowPosts(new) :
                     IF p.kind = "tomorrow_none" THEN p.mids = <<>>
                     ELSE /\ p.mids # <<>>
                          /\ \A i \in 1..Len(p.mids) :
                               \E m \in UpstreamRecords :
                                 m.id = p.mids[i] /\ Classified[m].category = "international"
           /\ (AdvancedIn(notes', g, s) /\ ~AdvancedIn(notes, g, s)) =>
                /\ Cardinality(TomorrowPosts(after)) = 1
                /\ \E p \in after : p.kind \in SummaryKinds
                /\ \A p \in after : p.kind = "nomatches" =>
                     \A q \in after : q.kind # "summary"]_vars

\* the first tick is over: it sent a guild a summary, then the list of
\* tomorrow's fixtures with m1 in it, and moved the due time on in the file
C34_Witness ==
  /\ ended.serial = 1 /\ InFlight = {}
  /\ \E g \in Tenants :
       /\ {p.kind : p \in PostsOf(posts, g, 1)} = {"summary", "tomorrow"}
       /\ \E p \in PostsOf(posts, g, 1) : p.kind = "tomorrow" /\ p.mids = <<"m1">>
       /\ AdvancedIn(notes, g, 1)
       /\ disk[g].next_summary = MissedDue + DAY_SECONDS

\* a tick sent a guild the message that there are no matches to summarise and
\* the message that there are no fixtures tomorrow, and moved the due time on
C34_WitnessNone ==
  \E g \in Tenants, s \in 1..MaxTicks :
    /\ {p.kind : p \in PostsOf(posts, g, s)} = {"nomatches", "tomorrow_none"}
    /\ AdvancedIn(notes, g, s)

\* the requests that fetch total rows: max(1, ceil(total / 25))
PagesOf(total) == IF total = 0 THEN 1 ELSE (total + PAGE_SIZE - 1) \div PAGE_SIZE

\* the rows 1 to n in order
RowsUpTo(n) == [i \in 1..n |-> i]

\* C35: when every page succeeds, fetchPaginated ends after exactly
\* max(1, ceil(N/25)) requests and has all N rows, each once and in order;
\* when a page reports no success it ends with that request and has the rows
\* of the pages before; and it has never made more requests than that
C35_Pagination ==
  LET pages == PagesOf(probe.total)
      fails == probe.failAt \in 1..pages
  IN  /\ probe.requests <= (IF fails THEN probe.failAt ELSE pages)
      /\ probe.done = (probe.requests = (IF fails THEN probe.failAt ELSE pages))
      /\ probe.done =>
           probe.all = (IF fails THEN RowsUpTo(PAGE_SIZE * (probe.failAt - 1))
                        ELSE RowsUpTo(probe.total))

\* 51 rows were fetched with three requests, the last page holding one row
C35_Witness ==
  /\ probe.done /\ probe.total = 2 * PAGE_SIZE + 1 /\ probe.failAt = 0
  /\ probe.requests = 3 /\ Len(probe.all) = probe.total

\* the second page reported no success: the rows of the first are returned
C35_WitnessFailure ==
  /\ probe.done /\ probe.total = MaxRows /\ probe.failAt = 2
  /\ probe.requests = 2 /\ probe.all = RowsUpTo(PAGE_SIZE)

\* a total that is a multiple of 25 takes no request for an empty page
C35_WitnessFullPages ==
  /\ probe.done /\ probe.total = 2 * PAGE_SIZE /\ probe.failAt = 0 /\ probe.requests = 2

\* the first tick is over and nothing else has happened: no await failed, no
\* command ran, upstream reports what it reported when the process started
FirstTickAlone == ended.serial = 1 /\ nticks = 1 /\ InFlight = {} /\ nevents = 0

\* guild g was loaded tracking m1 alone, in custom mode with the default filters
TracksM1(g) == boot.loaded[g] = DefaultGuild(<<"m1">>, "custom")

\* C36: what the first tick sends to a guild that tracks m1, which is in play,
\* is the score update of m1, whatever the configuration of the other guild
C36_PostsIndependentOfOthers ==
  \A g \in Tenants :
    (FirstTickAlone /\ TracksM1(g) /\ feed["m1"] = "live") =>
      SentInFirstTick(g) = {<<"score", <<"m1">> >>}

\* the same for the executions in which no other guild tracks m1
C36_PostsWhenAlone ==
  \A g \in Tenants :
    (/\ FirstTickAlone /\ TracksM1(g) /\ feed["m1"] = "live"
     /\ \A h \in Tenants \ {g} : ~TracksM1(h)) =>
      SentInFirstTick(g) = {<<"score", <<"m1">> >>}

\* both guilds track m1 and the first tick, which is over, sent the score
\* update to the first of them and nothing to the second
C36_StarvedByOther ==
  /\ FirstTickAlone /\ feed["m1"] = "live"
  /\ \A g \in Tenants : TracksM1(g)
  /\ SentInFirstTick(TenantOrder[1]) = {<<"score", <<"m1">> >>}
  /\ SentInFirstTick(TenantOrder[2]) = {}

\* C37: an admin command, button or select menu used by a member who may not
\* manage the server leaves data and the data file as they were
C37_DeniedChangesNothing == [][reply'.kind = "denied" => (data' = data /\ disk' = disk)]_vars

\* such an interaction leaves the record of a guild that has one as it was
C37_KnownGuildUnchanged ==
  [][\A g \in Tenants :
       (reply'.kind = "denied" /\ data[g] # NoGuildRecord) =>
         (data'[g] = data[g] /\ disk'[g] = disk[g])]_vars

\* such an interaction has given a guild that had no record one, in the file
\* too, with the channel the member used, daily mode and not paused
C37_RecordOfNonAdmin ==
  /\ reply.kind = "denied"
  /\ boot.loaded[reply.g] = NoGuildRecord
  /\ disk[reply.g] = [DefaultGuild(<<>>, "daily") EXCEPT !.channel_id = "channel2"]
  /\ ~Skipped(data[reply.g])

====
